---- MODULE Spec2Model ----
(***************************************************************************)
(* A model of snag's policy resolution and matching engine:                *)
(*   - the string primitives of patterns.go (matchesPattern,                *)
(*     deduplicatePatterns, stripDiffMeta, stripDiffNoise, isTrailerLine),  *)
(*   - the configuration resolver of config.go (walkConfig, mergeTOML,      *)
(*     mergeBlocklist, resolveBlockConfig),                                 *)
(*   - the hook checkers (runMsg, runDiff).                                 *)
(*                                                                         *)
(* A Go string is a sequence of one-character strings, so that substring   *)
(* search, prefixes, splitting and lowercasing are computed, not assumed.  *)
(***************************************************************************)
EXTENDS Integers, Sequences, FiniteSets, TLC

VARIABLES
    fs,        \* the directory chain: fs[0] is the start directory, fs[MaxDepth] the root
    flag,      \* the --blocklist flag: [changed, file]
    env,       \* the environment: [blocklist, branches, ignore]
    cmd,       \* the command being run: "config", "msg", "diff", "push", "audit", "rebase", "checkout"
    pc,        \* position of the invocation inside its handler
    current,   \* walkConfig: index of the directory being examined
    kind,      \* walkConfig: configNone / configTOML / configBlocklist
    found,     \* walkConfig: whether any config file was found
    bc,        \* the BlockConfig under construction, then resolved
    walked,    \* resolveBlockConfig: what walkConfig returned
    accum,     \* the BlockConfig as accumulated, before suppression and normalisation
    err,       \* the error the invocation returns ("" when none)
    msgFile,   \* content of the commit message file
    msgOrig,   \* content of the commit message file when the hook started
    cleaned,   \* runMsg: the lines kept by pass 1
    staged,    \* the staged change: [name, status, lines]
    result,    \* outcome of a check: [exit, pattern, removed]
    args,      \* arguments of a function applied on its own
    ret,       \* what that function returned
    commits,   \* the commits of the revision range, in the order git lists them
    rebase,    \* the rebase guard's inputs: [arg, current, allow]
    shaIdx,    \* runPush, runAudit: index of the commit being examined
    reports,   \* runAudit: the commit reports collected; runPush: the violation reported
    git,       \* the repository: [history, side, fail], history listed from HEAD
    audit,     \* the audit command line: [given, back, limit], the range HEAD~back..HEAD
    Version,   \* the version of the running build
    hooksInstalled  \* whether a lefthook config or a .git/hooks script refers to snag

vars == <<fs, flag, env, cmd, pc, current, kind, found, bc, walked, accum, err,
          msgFile, msgOrig, cleaned, staged, result, args, ret,
          commits, rebase, shaIdx, reports, git, audit, Version, hooksInstalled>>

inputVars == <<fs, flag, env, cmd, rebase, git, audit, Version, hooksInstalled>>
walkVars  == <<current, kind, found, walked>>
checkVars == <<msgFile, msgOrig, cleaned, staged, result>>
fnVars    == <<args, ret>>
loopVars  == <<commits, shaIdx, reports>>

(***************************************************************************)
(* Bounds of the model.                                                    *)
(***************************************************************************)
MaxDepth == 1      \* number of ancestor directories above the start directory
MaxLines == 3      \* number of lines of a commit message
MaxHunk  == 2      \* number of content lines of a staged diff
MaxText  == 3      \* length of a text handed to matchesPattern on its own
MaxPatterns == 2   \* length of a pattern list handed to matchesPattern on its own
MaxLine  == 4      \* length of a line handed to isTrailerLine on its own
MaxList  == 4      \* length of a list handed to deduplicatePatterns on its own
MaxCommits == 2    \* number of commits in the revision range of a push

(***************************************************************************)
(* Go strings.                                                             *)
(***************************************************************************)
UpperToLower ==
    [A |-> "a", B |-> "b", C |-> "c", D |-> "d", E |-> "e", F |-> "f",
     G |-> "g", H |-> "h", I |-> "i", J |-> "j", K |-> "k", L |-> "l",
     M |-> "m", N |-> "n", O |-> "o", P |-> "p", Q |-> "q", R |-> "r",
     S |-> "s", T |-> "t", U |-> "u", V |-> "v", W |-> "w", X |-> "x",
     Y |-> "y", Z |-> "z"]

\* unicode.ToLower on one character
LowerChar(c) == IF c \in DOMAIN UpperToLower THEN UpperToLower[c] ELSE c

\* strings.ToLower
ToLower(s) == [i \in 1..Len(s) |-> LowerChar(s[i])]

\* strings.HasPrefix
HasPrefix(s, p) == Len(s) >= Len(p) /\ SubSeq(s, 1, Len(p)) = p

\* strings.Index: 0-based position of the first occurrence of sub in s, or -1
Index(s, sub) ==
    LET at == {i \in 0..(Len(s) - Len(sub)) : SubSeq(s, i + 1, i + Len(sub)) = sub}
    IN  IF at = {} THEN -1 ELSE CHOOSE i \in at : \A j \in at : i <= j

\* strings.Contains
Contains(s, sub) == Index(s, sub) >= 0

\* strings.Split(s, sep) for a one-character separator: always at least one
\* field; field k lies between the (k-1)-th and the k-th separator
Split(s, sep) ==
    LET at == {i \in 1..Len(s) : s[i] = sep}
        nth(k) == IF k = 0 THEN 0
                  ELSE IF k > Cardinality(at) THEN Len(s) + 1
                  ELSE CHOOSE i \in at : Cardinality({j \in at : j < i}) = k - 1
    IN  [k \in 1..(Cardinality(at) + 1) |-> SubSeq(s, nth(k - 1) + 1, nth(k) - 1)]

\* strings.Join(parts, sep) for a one-character separator
RECURSIVE Join(_, _)
Join(parts, sep) ==
    IF parts = <<>> THEN <<>>
    ELSE IF Len(parts) = 1 THEN parts[1]
    ELSE parts[1] \o <<sep>> \o Join(Tail(parts), sep)

\* strings.TrimLeft(s, " \t")
RECURSIVE TrimLeft(_, _)
TrimLeft(s, cutset) ==
    IF s # <<>> /\ Head(s) \in cutset THEN TrimLeft(Tail(s), cutset) ELSE s

RECURSIVE TrimRight(_, _)
TrimRight(s, cutset) ==
    IF s # <<>> /\ s[Len(s)] \in cutset
    THEN TrimRight(SubSeq(s, 1, Len(s) - 1), cutset) ELSE s

\* strings.TrimSpace
TrimSpace(s) == TrimRight(TrimLeft(s, {" ", "\t", "\n", "\r"}), {" ", "\t", "\n", "\r"})

(***************************************************************************)
(* patterns.go                                                             *)
(***************************************************************************)

\* matchesPattern: lowercase the text once, scan the patterns in order,
\* return the first hit.
RECURSIVE scanPatterns(_, _)
scanPatterns(lower, patterns) ==
    IF patterns = <<>> THEN [pattern |-> <<>>, found |-> FALSE]
    ELSE IF Contains(lower, Head(patterns))
         THEN [pattern |-> Head(patterns), found |-> TRUE]
         ELSE scanPatterns(lower, Tail(patterns))

\* Mutant: the text is not lowercased
matchesPatternCaseSensitive(text, patterns) == scanPatterns(text, patterns)

\* Mutant: the pattern occurring leftmost in the text wins
matchesPatternLeftmost(text, patterns) ==
    LET lower == ToLower(text)
        h == {i \in 1..Len(patterns) : Contains(lower, patterns[i])}
    IN  IF h = {} THEN [pattern |-> <<>>, found |-> FALSE]
        ELSE LET i == CHOOSE i \in h : \A j \in h :
                          \/ Index(lower, patterns[i]) < Index(lower, patterns[j])
                          \/ Index(lower, patterns[i]) = Index(lower, patterns[j]) /\ i <= j
             IN  [pattern |-> patterns[i], found |-> TRUE]

matchesPattern(text, patterns) == scanPatterns(ToLower(text), patterns)

\* deduplicatePatterns: the loop over patterns with the seen map
RECURSIVE dedupLoop(_, _, _)
dedupLoop(patterns, seen, out) ==
    IF patterns = <<>> THEN out
    ELSE IF Head(patterns) \in seen
         THEN dedupLoop(Tail(patterns), seen, out)
         ELSE dedupLoop(Tail(patterns), seen \cup {Head(patterns)},
                        Append(out, Head(patterns)))

\* Mutant: the last occurrence of a value is kept instead of the first
deduplicateKeepsLast(patterns) ==
    LET rev(x) == [i \in 1..Len(x) |-> x[Len(x) + 1 - i]]
    IN  rev(dedupLoop(rev(patterns), {}, <<>>))

deduplicatePatterns(patterns) == dedupLoop(patterns, {}, <<>>)

\* deduplicatePatterns returns a nil slice exactly when it returns no element:
\* the early return for len(patterns) == 0, and `var result []string` otherwise.
deduplicateIsNil(patterns) == Len(deduplicatePatterns(patterns)) = 0

\* isDiffMeta: the prefixes of the structural lines of a unified diff
diffMetaPrefixes ==
    { <<"d", "i", "f", "f", " ", "-", "-", "g", "i", "t", " ">>,
      <<"-", "-", "-", " ", "a", "/">>,
      <<"+", "+", "+", " ", "b", "/">>,
      <<"r", "e", "n", "a", "m", "e", " ", "f", "r", "o", "m", " ">>,
      <<"r", "e", "n", "a", "m", "e", " ", "t", "o", " ">>,
      <<"c", "o", "p", "y", " ", "f", "r", "o", "m", " ">>,
      <<"c", "o", "p", "y", " ", "t", "o", " ">>,
      <<"i", "n", "d", "e", "x", " ">>,
      <<"@", "@", " ">>,
      <<"o", "l", "d", " ", "m", "o", "d", "e", " ">>,
      <<"n", "e", "w", " ", "m", "o", "d", "e", " ">>,
      <<"n", "e", "w", " ", "f", "i", "l", "e", " ", "m", "o", "d", "e", " ">>,
      <<"d", "e", "l", "e", "t", "e", "d", " ", "f", "i", "l", "e", " ", "m", "o", "d", "e", " ">>,
      <<"s", "i", "m", "i", "l", "a", "r", "i", "t", "y", " ", "i", "n", "d", "e", "x", " ">>,
      <<"d", "i", "s", "s", "i", "m", "i", "l", "a", "r", "i", "t", "y", " ", "i", "n", "d", "e", "x", " ">>,
      <<"B", "i", "n", "a", "r", "y", " ", "f", "i", "l", "e", "s", " ">> }

devNullOld == <<"-", "-", "-", " ", "/", "d", "e", "v", "/", "n", "u", "l", "l">>
devNullNew == <<"+", "+", "+", " ", "/", "d", "e", "v", "/", "n", "u", "l", "l">>

\* Mutant: the "+++ b/" file header is not recognised
isDiffMetaNoNewHeader(line) ==
    \/ \E p \in diffMetaPrefixes \ {<<"+", "+", "+", " ", "b", "/">>} : HasPrefix(line, p)
    \/ line = devNullOld
    \/ line = devNullNew

isDiffMeta(line) ==
    \/ \E p \in diffMetaPrefixes : HasPrefix(line, p)
    \/ line = devNullOld
    \/ line = devNullNew

\* stripDiffMeta: drop the structural lines
stripDiffMeta(diff) ==
    Join(SelectSeq(Split(diff, "\n"), LAMBDA line : ~isDiffMeta(line)), "\n")

\* stripDiffNoise: keep the lines starting with "+", without the "+"
stripDiffNoise(diff) ==
    LET added == SelectSeq(Split(diff, "\n"), LAMBDA line : HasPrefix(line, <<"+">>))
    IN  Join([i \in 1..Len(added) |-> Tail(added[i])], "\n")

\* Mutant: an empty key is accepted (idx < 0 instead of idx < 1)
isTrailerLineEmptyKey(line) ==
    IF line = <<>> THEN FALSE
    ELSE IF TrimLeft(line, {" ", "\t"}) # line THEN FALSE
    ELSE LET idx == Index(line, <<":", " ">>)
         IN  IF idx < 0 THEN FALSE
             ELSE ~Contains(SubSeq(line, 1, idx), <<" ">>)

\* isTrailerLine: no leading whitespace, a ": ", a non-empty key without space
isTrailerLine(line) ==
    IF line = <<>> THEN FALSE
    ELSE IF TrimLeft(line, {" ", "\t"}) # line THEN FALSE
    ELSE LET idx == Index(line, <<":", " ">>)
         IN  IF idx < 1 THEN FALSE
             ELSE ~Contains(SubSeq(line, 1, idx), <<" ">>)

(***************************************************************************)
(* rebase.go                                                               *)
(***************************************************************************)

\* path.Match for patterns made of literal characters, `*` and `?`
\* (neither matches a "/")
RECURSIVE pathMatch(_, _)
pathMatch(pattern, name) ==
    IF pattern = <<>> THEN name = <<>>
    ELSE IF Head(pattern) = "*"
    THEN \E k \in 0..Len(name) :
             /\ \A i \in 1..k : name[i] # "/"
             /\ pathMatch(Tail(pattern), SubSeq(name, k + 1, Len(name)))
    ELSE IF name = <<>> THEN FALSE
    ELSE IF Head(pattern) = "?"
    THEN Head(name) # "/" /\ pathMatch(Tail(pattern), Tail(name))
    ELSE Head(pattern) = Head(name) /\ pathMatch(Tail(pattern), Tail(name))

\* Mutant: patterns are compared as plain names, never as globs
isProtectedExactOnly(name, patterns) == \E i \in 1..Len(patterns) : name = patterns[i]

\* Mutant: branch names are compared without regard to case
isProtectedCaseless(name, patterns) ==
    \E i \in 1..Len(patterns) :
        \/ ToLower(name) = ToLower(patterns[i])
        \/ pathMatch(ToLower(patterns[i]), ToLower(name))

\* isProtected: an exact match or a glob match with some pattern
isProtected(name, patterns) ==
    \E i \in 1..Len(patterns) :
        \/ name = patterns[i]
        \/ pathMatch(patterns[i], name)

\* the branch checked: the argument when given, else the current branch
rebaseBranch(r) == IF r.arg # <<>> THEN r.arg ELSE r.current

\* currentBranch fails: no argument names the branch and git cannot tell it
noBranch(r, g) == r.arg = <<>> /\ "symbolic-ref" \in g.fail

(***************************************************************************)
(* msg.go                                                                  *)
(***************************************************************************)

\* Mutant: only the first matching trailer is removed
RECURSIVE stripMatchingTrailersOnce(_, _)
stripMatchingTrailersOnce(lines, patterns) ==
    IF lines = <<>> THEN [kept |-> <<>>, removed |-> 0]
    ELSE IF isTrailerLine(Head(lines)) /\ scanPatterns(ToLower(Head(lines)), patterns).found
         THEN [kept |-> Tail(lines), removed |-> 1]
         ELSE LET r == stripMatchingTrailersOnce(Tail(lines), patterns)
              IN  [kept |-> <<Head(lines)>> \o r.kept, removed |-> r.removed]

\* stripMatchingTrailers: drop every line that is trailer-shaped and matches a
\* pattern; return the kept lines and the number of removed ones
RECURSIVE stripMatchingTrailers(_, _)
stripMatchingTrailers(lines, patterns) ==
    IF lines = <<>> THEN [kept |-> <<>>, removed |-> 0]
    ELSE LET r == stripMatchingTrailers(Tail(lines), patterns)
         IN  IF isTrailerLine(Head(lines)) /\ matchesPattern(Head(lines), patterns).found
             THEN [kept |-> r.kept, removed |-> r.removed + 1]
             ELSE [kept |-> <<Head(lines)>> \o r.kept, removed |-> r.removed]

\* Mutant: the rewritten file loses its blank lines too
rewriteMessageNoBlanks(data, r) ==
    IF r.removed > 0
    THEN Join(SelectSeq(r.kept, LAMBDA l : l # <<>>), "\n")
    ELSE data

\* Mutant: the message file is never rewritten
rewriteMessageNever(data, r) == data

\* runMsg, pass 1: the file is rewritten only when a line was removed
rewriteMessage(data, r) ==
    IF r.removed > 0 THEN Join(r.kept, "\n") ELSE data

(***************************************************************************)
(* config.go: files, BlockConfig                                           *)
(***************************************************************************)

\* The decoded content of a structured file (snagTOML.Block). PushSet is
\* "the push key is present" (Block.Push != nil); bad is a TOML syntax error;
\* unreadable is a read error other than "not found".
NoToml ==
    [exists |-> FALSE, unreadable |-> FALSE, bad |-> FALSE, MinVersion |-> <<>>,
     Diff |-> <<>>, Msg |-> <<>>, PushSet |-> FALSE, Push |-> <<>>, Branch |-> <<>>]

Toml(diff, msg, pushSet, push, branch) ==
    [exists |-> TRUE, unreadable |-> FALSE, bad |-> FALSE, MinVersion |-> <<>>,
     Diff |-> diff, Msg |-> msg, PushSet |-> pushSet, Push |-> push, Branch |-> branch]

BadToml == [Toml(<<>>, <<>>, FALSE, <<>>, <<>>) EXCEPT !.bad = TRUE]

\* A legacy flat file: its text, one pattern per line.
NoBlocklist == [exists |-> FALSE, unreadable |-> FALSE, text |-> <<>>]
Blocklist(text) == [exists |-> TRUE, unreadable |-> FALSE, text |-> text]

\* BlockConfig. Push is a Go slice whose nil-ness is meaningful: PushNil is
\* `bc.Push == nil`, Push its elements.
EmptyConfig ==
    [Diff |-> <<>>, Msg |-> <<>>, Push |-> <<>>, PushNil |-> TRUE, Branch |-> <<>>]

configNone == "configNone"
configTOML == "configTOML"
configBlocklist == "configBlocklist"

defaultProtectedBranches ==
    << <<"m", "a", "i", "n">>, <<"m", "a", "s", "t", "e", "r">> >>

\* BlockConfig.PushPatterns
PushPatterns(c) ==
    IF ~c.PushNil THEN c.Push ELSE deduplicatePatterns(c.Diff \o c.Msg)

\* BlockConfig.HasAnyPatterns
HasAnyPatterns(c) ==
    Len(c.Diff) > 0 \/ Len(c.Msg) > 0 \/ Len(c.Push) > 0 \/ Len(c.Branch) > 0

\* fileExists
fileExists(file) == file.exists

\* lowercaseAll
lowercaseAll(ss) == [i \in 1..Len(ss) |-> ToLower(ss[i])]

\* The lines a loader keeps: trimmed, not blank, not a comment, lowercased.
RECURSIVE keepPatternLines(_)
keepPatternLines(lines) ==
    IF lines = <<>> THEN <<>>
    ELSE LET line == TrimSpace(Head(lines))
         IN  IF line = <<>> \/ HasPrefix(line, <<"#">>)
             THEN keepPatternLines(Tail(lines))
             ELSE <<ToLower(line)>> \o keepPatternLines(Tail(lines))

\* loadBlocklist: a missing file gives (nil, nil)
loadBlocklist(file) ==
    IF ~file.exists THEN [patterns |-> <<>>, err |-> ""]
    ELSE IF file.unreadable THEN [patterns |-> <<>>, err |-> "read"]
    ELSE [patterns |-> keepPatternLines(Split(file.text, "\n")), err |-> ""]

\* loadEnvBlocklist: SNAG_BLOCKLIST, entries separated by newlines or colons
loadEnvBlocklist(val) ==
    IF val = <<>> THEN <<>>
    ELSE keepPatternLines(
             Split([i \in 1..Len(val) |-> IF val[i] = ":" THEN "\n" ELSE val[i]], "\n"))

\* strings.TrimPrefix
TrimPrefix(s, p) == IF HasPrefix(s, p) THEN SubSeq(s, Len(p) + 1, Len(s)) ELSE s

\* strings.SplitN(s, sep, n): at most n parts, the last one unsplit
firstParts(parts, sep, n) ==
    IF Len(parts) <= n THEN parts
    ELSE SubSeq(parts, 1, n - 1) \o <<Join(SubSeq(parts, n, Len(parts)), sep)>>

SplitN(s, sep, n) == firstParts(Split(s, sep), sep, n)

digits == <<"0", "1", "2", "3", "4", "5", "6", "7", "8", "9">>

isDigit(c) == \E d \in 1..10 : digits[d] = c

digitValue(c) == (CHOOSE d \in 1..10 : digits[d] = c) - 1

\* the value of a string of digits
RECURSIVE decimal(_)
decimal(s) ==
    IF s = <<>> THEN 0 ELSE 10 * decimal(SubSeq(s, 1, Len(s) - 1)) + digitValue(s[Len(s)])

\* the digits s starts with
RECURSIVE leadingDigits(_)
leadingDigits(s) ==
    IF s # <<>> /\ isDigit(Head(s)) THEN <<Head(s)>> \o leadingDigits(Tail(s)) ELSE <<>>

\* fmt.Sscanf(s, "%d", &v) on v = 0: an optional sign and the digits that
\* follow it; v stays 0 when there is no digit
scanInt(s) ==
    IF s # <<>> /\ Head(s) = "-" THEN 0 - decimal(leadingDigits(Tail(s)))
    ELSE IF s # <<>> /\ Head(s) = "+" THEN decimal(leadingDigits(Tail(s)))
    ELSE decimal(leadingDigits(s))

\* the three numbers compareSemver reads from the parts of a version; a
\* missing part is 0
partNumbers(parts) == [i \in 1..3 |-> IF i <= Len(parts) THEN scanInt(parts[i]) ELSE 0]

\* Mutant: the last part in which the versions differ decides
comparePartsPatchFirst(x, y) ==
    IF \A i \in 1..3 : x[i] = y[i] THEN 0
    ELSE LET i == CHOOSE i \in 1..3 : x[i] # y[i] /\ \A j \in (i + 1)..3 : x[j] = y[j]
         IN  IF x[i] < y[i] THEN -1 ELSE 1

\* compareSemver, the loop: the first part in which the versions differ decides
compareParts(x, y) ==
    IF \A i \in 1..3 : x[i] = y[i] THEN 0
    ELSE LET i == CHOOSE i \in 1..3 : x[i] # y[i] /\ \A j \in 1..(i - 1) : x[j] = y[j]
         IN  IF x[i] < y[i] THEN -1 ELSE 1

\* compareSemver: -1, 0 or 1 by major, then minor, then patch
compareSemver(a, b) ==
    compareParts(partNumbers(SplitN(a, ".", 3)), partNumbers(SplitN(b, ".", 3)))

devBuild == <<"d", "e", "v">>

\* checkMinVersion: an error when the running version is older than minVer;
\* development builds always pass
checkMinVersion(minVer) ==
    IF Version = devBuild \/ HasPrefix(Version, devBuild \o <<"+">>) THEN ""
    ELSE IF compareSemver(TrimPrefix(Version, <<"v">>), TrimPrefix(minVer, <<"v">>)) < 0
    THEN "version"
    ELSE ""

\* loadSnagTOML: a missing file gives the zero value and no error
loadSnagTOML(file) ==
    IF ~file.exists THEN [cfg |-> NoToml, err |-> ""]
    ELSE IF file.unreadable THEN [cfg |-> NoToml, err |-> "read"]
    ELSE IF file.bad THEN [cfg |-> NoToml, err |-> "parse"]
    ELSE IF file.MinVersion # <<>> /\ checkMinVersion(file.MinVersion) # ""
    THEN [cfg |-> NoToml, err |-> "version"]
    ELSE [cfg |-> file, err |-> ""]

\* Mutant: a file that sets push replaces the push list merged so far
mergeTOMLOverridesPush(c, file) ==
    LET l == loadSnagTOML(file)
    IN  IF l.err # "" THEN [bc |-> c, err |-> l.err]
        ELSE [bc |-> [Diff    |-> c.Diff \o l.cfg.Diff,
                      Msg     |-> c.Msg \o l.cfg.Msg,
                      Push    |-> IF l.cfg.PushSet THEN l.cfg.Push ELSE c.Push,
                      PushNil |-> IF l.cfg.PushSet THEN FALSE ELSE c.PushNil,
                      Branch  |-> c.Branch \o l.cfg.Branch],
              err |-> ""]

\* Mutant: a file that omits push resets the push list to unset
mergeTOMLOmittedPushResets(c, file) ==
    LET l == loadSnagTOML(file)
    IN  IF l.err # "" THEN [bc |-> c, err |-> l.err]
        ELSE [bc |-> [Diff    |-> c.Diff \o l.cfg.Diff,
                      Msg     |-> c.Msg \o l.cfg.Msg,
                      Push    |-> IF l.cfg.PushSet THEN c.Push \o l.cfg.Push ELSE <<>>,
                      PushNil |-> ~l.cfg.PushSet,
                      Branch  |-> c.Branch \o l.cfg.Branch],
              err |-> ""]

\* Mutant: a file that cannot be loaded is passed over
mergeTOMLSkipsBroken(c, file) ==
    LET l == loadSnagTOML(file)
    IN  [bc |-> [Diff    |-> c.Diff \o l.cfg.Diff,
                 Msg     |-> c.Msg \o l.cfg.Msg,
                 Push    |-> IF l.cfg.PushSet THEN c.Push \o l.cfg.Push ELSE c.Push,
                 PushNil |-> IF l.cfg.PushSet THEN FALSE ELSE c.PushNil,
                 Branch  |-> c.Branch \o l.cfg.Branch],
         err |-> ""]

\* mergeTOML: append the file's patterns into c
mergeTOML(c, file) ==
    LET l == loadSnagTOML(file)
    IN  IF l.err # "" THEN [bc |-> c, err |-> l.err]
        ELSE [bc |-> [Diff    |-> c.Diff \o l.cfg.Diff,
                      Msg     |-> c.Msg \o l.cfg.Msg,
                      Push    |-> IF l.cfg.PushSet THEN c.Push \o l.cfg.Push ELSE c.Push,
                      PushNil |-> IF l.cfg.PushSet THEN FALSE ELSE c.PushNil,
                      Branch  |-> c.Branch \o l.cfg.Branch],
              err |-> ""]

\* mergeBlocklist: the same patterns go to Diff, Msg and Push
mergeBlocklist(c, file) ==
    LET l == loadBlocklist(file)
    IN  IF l.err # "" THEN [bc |-> c, err |-> "loading"]
        ELSE [bc |-> [Diff    |-> c.Diff \o l.patterns,
                      Msg     |-> c.Msg \o l.patterns,
                      Push    |-> c.Push \o l.patterns,
                      PushNil |-> IF Len(l.patterns) > 0 THEN FALSE ELSE c.PushNil,
                      Branch  |-> c.Branch],
              err |-> ""]

\* Mutant: snag-local.toml is merged before snag.toml
mergeLevelTOMLLocalFirst(c, d) ==
    LET first == IF fileExists(d.local) THEN mergeTOML(c, d.local)
                 ELSE [bc |-> c, err |-> ""]
    IN  IF first.err # "" THEN first
        ELSE IF fileExists(d.toml) THEN mergeTOML(first.bc, d.toml)
        ELSE first

\* walkConfig, the structured branch of one level: snag.toml, then snag-local.toml
mergeLevelTOML(c, d) ==
    LET first == IF fileExists(d.toml) THEN mergeTOML(c, d.toml)
                 ELSE [bc |-> c, err |-> ""]
    IN  IF first.err # "" THEN first
        ELSE IF fileExists(d.local) THEN mergeTOML(first.bc, d.local)
        ELSE first

\* Mutant: only the primary file selects structured mode; a local file alone
\* is passed over in favour of the legacy file
walkLevelNonePrimaryOnly(c, f, d) ==
    IF fileExists(d.toml)
    THEN LET m == mergeLevelTOML(c, d)
         IN  [bc |-> m.bc, kind |-> configTOML, found |-> TRUE, err |-> m.err]
    ELSE IF fileExists(d.bl)
    THEN LET m == mergeBlocklist(c, d.bl)
         IN  [bc |-> m.bc, kind |-> configBlocklist, found |-> TRUE, err |-> m.err]
    ELSE IF fileExists(d.local)
    THEN LET m == mergeLevelTOML(c, d)
         IN  [bc |-> m.bc, kind |-> configTOML, found |-> TRUE, err |-> m.err]
    ELSE [bc |-> c, kind |-> configNone, found |-> f, err |-> ""]

\* walkConfig, case configNone of one loop iteration: prefer the structured
\* files, fall back to the legacy file, else leave the mode undecided
walkLevelNone(c, f, d) ==
    IF fileExists(d.toml) \/ fileExists(d.local)
    THEN LET m == mergeLevelTOML(c, d)
         IN  [bc |-> m.bc, kind |-> configTOML, found |-> TRUE, err |-> m.err]
    ELSE IF fileExists(d.bl)
    THEN LET m == mergeBlocklist(c, d.bl)
         IN  [bc |-> m.bc, kind |-> configBlocklist, found |-> TRUE, err |-> m.err]
    ELSE [bc |-> c, kind |-> configNone, found |-> f, err |-> ""]

\* Mutant: the mode is decided afresh at every level instead of being kept
walkLevelRedecided(c, k, f, d) ==
    LET r == walkLevelNone(c, f, d)
    IN  IF r.kind = configNone THEN [r EXCEPT !.kind = k] ELSE r

\* walkConfig, the body of one loop iteration at directory d
walkLevel(c, k, f, d) ==
    IF k = configNone THEN walkLevelNone(c, f, d)
    ELSE IF k = configTOML
    THEN LET m == mergeLevelTOML(c, d)
         IN  [bc |-> m.bc, kind |-> k, found |-> f, err |-> m.err]
    ELSE IF fileExists(d.bl)
         THEN LET m == mergeBlocklist(c, d.bl)
              IN  [bc |-> m.bc, kind |-> k, found |-> f, err |-> m.err]
         ELSE [bc |-> c, kind |-> k, found |-> f, err |-> ""]

\* SNAG_PROTECTED_BRANCHES: comma-separated, trimmed, empty entries dropped
RECURSIVE keepBranches(_)
keepBranches(parts) ==
    IF parts = <<>> THEN <<>>
    ELSE LET s == TrimSpace(Head(parts))
         IN  IF s # <<>> THEN <<s>> \o keepBranches(Tail(parts))
             ELSE keepBranches(Tail(parts))

envProtectedBranches(val) ==
    IF val = <<>> THEN <<>> ELSE keepBranches(Split(val, ","))

\* Mutant: SNAG_BLOCKLIST is appended to Push even when Push is nil, which sets it
overlayEnvForcesPush(c, e) ==
    LET envPatterns == loadEnvBlocklist(e.blocklist)
    IN  [Diff    |-> c.Diff \o envPatterns,
         Msg     |-> c.Msg \o envPatterns,
         Push    |-> c.Push \o envPatterns,
         PushNil |-> c.PushNil /\ Len(envPatterns) = 0,
         Branch  |-> IF Len(c.Branch \o envProtectedBranches(e.branches)) = 0
                     THEN defaultProtectedBranches
                     ELSE c.Branch \o envProtectedBranches(e.branches)]

\* Mutant: the defaults are applied before SNAG_PROTECTED_BRANCHES is appended
overlayEnvDefaultsFirst(c, e) ==
    LET envPatterns == loadEnvBlocklist(e.blocklist)
        withEnv ==
            IF Len(envPatterns) > 0
            THEN [c EXCEPT !.Diff = c.Diff \o envPatterns,
                           !.Msg  = c.Msg \o envPatterns,
                           !.Push = IF c.PushNil THEN c.Push ELSE c.Push \o envPatterns]
            ELSE c
        withDefaults ==
            IF Len(withEnv.Branch) = 0
            THEN [withEnv EXCEPT !.Branch = defaultProtectedBranches]
            ELSE withEnv
    IN  [withDefaults EXCEPT
            !.Branch = withDefaults.Branch \o envProtectedBranches(e.branches)]

\* resolveBlockConfig, the overlays: SNAG_BLOCKLIST into Diff/Msg (and Push
\* when it is set), SNAG_PROTECTED_BRANCHES into Branch, then the defaults
overlayEnv(c, e) ==
    LET envPatterns == loadEnvBlocklist(e.blocklist)
        withEnv ==
            IF Len(envPatterns) > 0
            THEN [c EXCEPT !.Diff = c.Diff \o envPatterns,
                           !.Msg  = c.Msg \o envPatterns,
                           !.Push = IF c.PushNil THEN c.Push ELSE c.Push \o envPatterns]
            ELSE c
        withBranches ==
            [withEnv EXCEPT !.Branch = withEnv.Branch \o envProtectedBranches(e.branches)]
    IN  IF Len(withBranches.Branch) = 0
        THEN [withBranches EXCEPT !.Branch = defaultProtectedBranches]
        ELSE withBranches

\* Mutant: Branch is lowercased like the other lists
normalizeLowersBranch(c) ==
    [Diff    |-> deduplicatePatterns(lowercaseAll(c.Diff)),
     Msg     |-> deduplicatePatterns(lowercaseAll(c.Msg)),
     Push    |-> IF c.PushNil THEN c.Push
                 ELSE deduplicatePatterns(lowercaseAll(c.Push)),
     PushNil |-> IF c.PushNil THEN TRUE ELSE deduplicateIsNil(lowercaseAll(c.Push)),
     Branch  |-> deduplicatePatterns(lowercaseAll(c.Branch))]

\* resolveBlockConfig, the normalisation: lowercase Diff/Msg/Push, keep the
\* case of Branch, deduplicate all four lists
normalize(c) ==
    [Diff    |-> deduplicatePatterns(lowercaseAll(c.Diff)),
     Msg     |-> deduplicatePatterns(lowercaseAll(c.Msg)),
     Push    |-> IF c.PushNil THEN c.Push
                 ELSE deduplicatePatterns(lowercaseAll(c.Push)),
     PushNil |-> IF c.PushNil THEN TRUE ELSE deduplicateIsNil(lowercaseAll(c.Push)),
     Branch  |-> deduplicatePatterns(c.Branch)]

(***************************************************************************)
(* Suppression (SNAG_IGNORE): comma-separated entries `phase` or           *)
(* `phase:pattern`, applied after accumulation and before normalisation.   *)
(***************************************************************************)
phaseDiff   == <<"d", "i", "f", "f">>
phaseMsg    == <<"m", "s", "g">>
phasePush   == <<"p", "u", "s", "h">>
phaseBranch == <<"b", "r", "a", "n", "c", "h">>

\* One entry, cut at its first colon: [phase, pattern, hasPattern]
parseIgnoreEntry(entry) ==
    LET e == TrimSpace(entry)
        i == Index(e, <<":">>)
    IN  IF i < 0 THEN [phase |-> e, pattern |-> <<>>, hasPattern |-> FALSE]
        ELSE [phase |-> SubSeq(e, 1, i), pattern |-> SubSeq(e, i + 2, Len(e)),
              hasPattern |-> TRUE]

\* The entries of SNAG_IGNORE
ignoreEntries(val) ==
    IF val = <<>> THEN <<>>
    ELSE LET parts == Split(val, ",")
         IN  [i \in 1..Len(parts) |-> parseIgnoreEntry(parts[i])]

\* Mutant: the pattern is compared byte for byte
removePatternExact(list, e) ==
    IF ~e.hasPattern THEN <<>>
    ELSE SelectSeq(list, LAMBDA x : x # e.pattern)

\* Remove one pattern (compared case-insensitively), or every pattern
removePattern(list, e) ==
    IF ~e.hasPattern THEN <<>>
    ELSE SelectSeq(list, LAMBDA x : ToLower(x) # ToLower(e.pattern))

applyIgnoreEntry(c, e) ==
    IF e.phase = phaseDiff THEN [c EXCEPT !.Diff = removePattern(c.Diff, e)]
    ELSE IF e.phase = phaseMsg THEN [c EXCEPT !.Msg = removePattern(c.Msg, e)]
    ELSE IF e.phase = phasePush THEN [c EXCEPT !.Push = removePattern(c.Push, e)]
    ELSE IF e.phase = phaseBranch THEN [c EXCEPT !.Branch = removePattern(c.Branch, e)]
    ELSE c

RECURSIVE applyIgnoreEntries(_, _)
applyIgnoreEntries(c, entries) ==
    IF entries = <<>> THEN c
    ELSE applyIgnoreEntries(applyIgnoreEntry(c, Head(entries)), Tail(entries))

applyIgnore(c, val) == applyIgnoreEntries(c, ignoreEntries(val))

(***************************************************************************)
(* The inputs of the model.                                                *)
(***************************************************************************)
patA   == <<"a">>
patAUp == <<"A">>
patB   == <<"b">>
patC   == <<"c">>
patD   == <<"d">>
brDev  == <<"d", "e", "v">>
brMainUp == <<"M", "a", "i", "n">>

TomlDiffMsg   == Toml(<<patA>>, <<patB>>, FALSE, <<>>, <<>>)
TomlPushEmpty == Toml(<<patAUp, patB>>, <<patA>>, TRUE, <<>>, <<brDev>>)
TomlPushSet   == Toml(<<>>, <<patB>>, TRUE, <<patC>>, <<brMainUp>>)
TomlLocal     == Toml(<<patC, patA>>, <<>>, FALSE, <<>>, <<>>)

\* "d" on a line; and a file with a comment, a blank line and a padded
\* uppercase pattern
BlocklistD      == Blocklist(<<"d", "\n">>)
BlocklistMixed  == Blocklist(<<"#", "c", "\n", "\n", " ", "A", " ", "\n", "b">>)
BlocklistNoPats == Blocklist(<<"#", "c", "\n">>)

TomlSlot  == {NoToml, TomlDiffMsg, TomlPushEmpty, TomlPushSet, BadToml}
LocalSlot == {NoToml, TomlLocal, TomlPushSet}
BlSlot    == {NoBlocklist, BlocklistD, BlocklistNoPats}

Directories == [toml : TomlSlot, local : LocalSlot, bl : BlSlot]

\* The directories of the runs that vary the environment instead
FewDirectories ==
    { [toml |-> NoToml, local |-> NoToml, bl |-> NoBlocklist],
      [toml |-> TomlDiffMsg, local |-> NoToml, bl |-> NoBlocklist],
      [toml |-> TomlPushEmpty, local |-> NoToml, bl |-> BlocklistD],
      [toml |-> NoToml, local |-> TomlPushSet, bl |-> NoBlocklist],
      [toml |-> NoToml, local |-> NoToml, bl |-> BlocklistMixed] }

NoFlag == [changed |-> FALSE, file |-> NoBlocklist]
Flags ==
    { NoFlag,
      [changed |-> TRUE, file |-> BlocklistMixed],
      [changed |-> TRUE, file |-> NoBlocklist] }

NoEnv == [blocklist |-> <<>>, branches |-> <<>>, ignore |-> <<>>]
EnvBlocklists == { <<>>, <<"C", ":", "#", "x", ":", " ", "a">> }
EnvBranches   == { <<>>, <<"d", "e", "v", ",", " ", "m", "a", "i", "n">> }
EnvIgnores ==
    { <<>>,
      phaseDiff \o <<":">> \o patAUp,
      phasePush \o <<",">> \o phaseMsg \o <<":">> \o patB,
      phaseBranch \o <<":">> \o <<"m", "a", "i", "n">> \o <<",">> \o phaseDiff,
      phasePush \o <<":">> \o patC \o <<",">> \o phaseBranch }
Envs == [blocklist : EnvBlocklists, branches : EnvBranches, ignore : EnvIgnores]

\* Texts and pattern lists handed to matchesPattern on its own
TextAlphabet  == {"a", "A", "b", "x"}
Texts         == UNION {[1..n -> TextAlphabet] : n \in 0..MaxText}
MatchPatterns == {patA, patAUp, patB, <<"a", "b">>, <<"b", "a">>}
PatternLists  == UNION {[1..n -> MatchPatterns] : n \in 0..MaxPatterns}

\* Lists handed to deduplicatePatterns on its own
DedupLists == UNION {[1..n -> {patA, patAUp, patB}] : n \in 0..MaxList}

\* Lines handed to isTrailerLine on its own
LineAlphabet == {"K", ":", " ", "\t"}
Lines        == UNION {[1..n -> LineAlphabet] : n \in 0..MaxLine}

\* Lines of a commit message: prose, trailers, trailer look-alikes, a blank line
MsgLines ==
    { <<"x", " ", "A">>,
      <<"x", " ", "y">>,
      <<"K", ":", " ", "A">>,
      <<"S", ":", " ", "b">>,
      <<"K", ":", " ", "x">>,
      <<" ", "K", ":", " ", "a">>,
      <<"x", " ", "y", ":", " ", "a">>,
      <<":", " ", "a">>,
      <<>> }
Messages == {Join(ls, "\n") : ls \in UNION {[1..n -> MsgLines] : n \in 1..MaxLines}}
MsgPatternLists == {<<>>, <<patA>>, <<patB>>, <<patA, patB>>, <<patB, patA>>}

\* Staged changes: a file, how it changed, and the lines of its hunk
patS == <<"s">>
patH == <<"h">>
DiffNames == {<<"s">>, <<"q">>}
DiffTexts == {<<"s">>, <<"q">>, <<"S", " ", "h">>, <<"+", "+", " ", "b", "/", "s">>}
DiffOps   == {"+", "-", " "}
HunkLines == [op : DiffOps, text : DiffTexts]
Hunks     == UNION {[1..n -> HunkLines] : n \in 1..MaxHunk}
StagedChanges ==
    { d \in [name : DiffNames, status : {"modified", "added", "deleted"}, lines : Hunks] :
        /\ d.status = "added"   => \A i \in 1..Len(d.lines) : d.lines[i].op = "+"
        /\ d.status = "deleted" => \A i \in 1..Len(d.lines) : d.lines[i].op = "-" }
DiffPatternLists == {<<>>, <<patS>>, <<patH>>, <<patS, patH>>, <<patH, patS>>}

\* Commits: a message and the change to one file
CommitMsgs == {<<"x", " ", "q">>, <<"x", " ", "S">>, <<"h", ":", " ", "q">>}
changeClean   == [name |-> <<"q">>, status |-> "modified",
                  lines |-> <<[op |-> "+", text |-> <<"q">>]>>]
changeAdded   == [name |-> <<"q">>, status |-> "modified",
                  lines |-> <<[op |-> "-", text |-> <<"q">>],
                              [op |-> "+", text |-> <<"S", " ", "h">>]>>]
changeRemoved == [name |-> <<"s">>, status |-> "modified",
                  lines |-> <<[op |-> "-", text |-> <<"s">>]>>]
changeHeaderLike == [name |-> <<"q">>, status |-> "added",
                     lines |-> <<[op |-> "+", text |-> <<"+", "+", " ", "b", "/", "s">>]>>]
CommitChanges == {changeClean, changeAdded, changeRemoved, changeHeaderLike}
Commits   == [msg : CommitMsgs, change : CommitChanges]
Histories == UNION {[1..n -> Commits] : n \in 0..MaxCommits}

\* Resolved policies for the push check: push set, push unset, nothing at all
PushPolicies ==
    {[EmptyConfig EXCEPT !.Push = p, !.PushNil = FALSE, !.Branch = defaultProtectedBranches] :
        p \in {<<patS>>, <<patH>>, <<patS, patH>>, <<patH, patS>>}}
    \cup {[EmptyConfig EXCEPT !.Diff = <<patS>>, !.Msg = <<patH>>,
                              !.Branch = defaultProtectedBranches],
          [EmptyConfig EXCEPT !.Branch = defaultProtectedBranches]}

NoResult == [exit |-> 0, pattern |-> <<>>, removed |-> 0]
NoDiff   == [name |-> <<>>, status |-> "none", lines |-> <<>>]
NoArgs   == [text |-> <<>>, patterns |-> <<>>]
NoReturn == [pattern |-> <<>>, found |-> FALSE]
NoBranch == [arg |-> <<>>, current |-> <<>>, allow |-> FALSE]
NoGit    == [history |-> <<>>, side |-> {}, fail |-> {}]
NoAudit  == [given |-> FALSE, back |-> 0, limit |-> 0]

\* No history and no branch: what the resolver and the functions applied on
\* their own never look at
IdleHistory ==
    /\ Version = devBuild
    /\ hooksInstalled = FALSE
    /\ commits = <<>>
    /\ rebase = NoBranch
    /\ git = NoGit
    /\ audit = NoAudit
    /\ shaIdx = 0
    /\ reports = <<>>

(***************************************************************************)
(* resolveBlockConfig as a state machine                                   *)
(***************************************************************************)

\* What no run of the resolver touches
IdleChecker ==
    /\ cmd = "config"
    /\ msgFile = <<>>
    /\ msgOrig = <<>>
    /\ cleaned = <<>>
    /\ staged = NoDiff
    /\ result = NoResult
    /\ args = NoArgs
    /\ ret = NoReturn
    /\ IdleHistory

InitResolver ==
    /\ pc = "start"
    /\ current = 0
    /\ kind = configNone
    /\ found = FALSE
    /\ bc = EmptyConfig
    /\ walked = EmptyConfig
    /\ accum = EmptyConfig
    /\ err = ""

\* Every directory chain, no flag, an empty environment
InitWalk ==
    /\ fs \in [0..MaxDepth -> Directories]
    /\ flag = NoFlag
    /\ env = NoEnv
    /\ InitResolver
    /\ IdleChecker

\* A few directory chains, every flag and environment
Init ==
    /\ fs \in [0..MaxDepth -> FewDirectories]
    /\ flag \in Flags
    /\ env \in Envs
    /\ InitResolver
    /\ IdleChecker

\* resolveBlockConfig, entry: the --blocklist flag replaces the walk
ResolveStart ==
    /\ pc = "start"
    /\ ~(cmd = "rebase" /\ (rebase.allow \/ noBranch(rebase, git)))
    /\ IF flag.changed
       THEN LET l == loadBlocklist(flag.file)
            IN  IF l.err # ""
                THEN /\ pc' = "failed"
                     /\ err' = "loading blocklist"
                     /\ bc' = bc
                ELSE /\ pc' = "overlay"
                     /\ err' = err
                     /\ bc' = [Diff |-> l.patterns, Msg |-> l.patterns,
                               Push |-> l.patterns, PushNil |-> Len(l.patterns) = 0,
                               Branch |-> <<>>]
       ELSE /\ pc' = "walk"
            /\ UNCHANGED <<err, bc>>
    /\ UNCHANGED <<inputVars, walkVars, accum, checkVars, fnVars, loopVars>>

\* walkConfig, one iteration of the loop: examine fs[current], then move to
\* the parent, or return at the root
WalkStep ==
    /\ pc = "walk"
    /\ LET r == walkLevel(bc, kind, found, fs[current])
       IN  IF r.err # ""
           THEN /\ pc' = "failed"
                /\ err' = r.err
                /\ UNCHANGED <<bc, kind, found, current, walked>>
           ELSE /\ bc' = r.bc
                /\ kind' = r.kind
                /\ found' = r.found
                /\ err' = err
                /\ IF current = MaxDepth
                   THEN /\ pc' = "overlay"
                        /\ walked' = r.bc
                        /\ current' = current
                   ELSE /\ pc' = "walk"
                        /\ walked' = walked
                        /\ current' = current + 1
    /\ UNCHANGED <<inputVars, accum, checkVars, fnVars, loopVars>>

\* resolveBlockConfig, the environment overlays and the default branches
OverlayEnv ==
    /\ pc = "overlay"
    /\ bc' = overlayEnv(bc, env)
    /\ accum' = bc'
    /\ pc' = "ignore"
    /\ UNCHANGED <<inputVars, walkVars, err, checkVars, fnVars, loopVars>>

\* the suppression list
ApplyIgnore ==
    /\ pc = "ignore"
    /\ bc' = applyIgnore(bc, env.ignore)
    /\ pc' = "normalize"
    /\ UNCHANGED <<inputVars, walkVars, accum, err, checkVars, fnVars, loopVars>>

\* resolveBlockConfig, lowercasing and deduplication; the policy is returned
Normalize ==
    /\ pc = "normalize"
    /\ bc' = normalize(bc)
    /\ pc' = "resolved"
    /\ UNCHANGED <<inputVars, walkVars, accum, err, checkVars, fnVars, loopVars>>

Resolve == ResolveStart \/ WalkStep \/ OverlayEnv \/ ApplyIgnore \/ Normalize

Next == Resolve

Spec == Init /\ [][Next]_vars

SpecWalk == InitWalk /\ [][Next]_vars

\* the process runs to completion: a step that can be taken is taken
SpecWalkLive == SpecWalk /\ WF_vars(Next)

\* Versions of the running build, and min_version declarations in files
verDevRev  == devBuild \o <<"+", "1">>
ver0_9_1   == <<"v", "0", ".", "9", ".", "1">>
ver0_10_0  == <<"0", ".", "1", "0", ".", "0">>
ver1_0     == <<"1", ".", "0">>
Versions   == {devBuild, verDevRev, ver0_9_1, ver0_10_0, ver1_0}
minV0_10_0 == <<"v", "0", ".", "1", "0", ".", "0">>
min0_9_2   == <<"0", ".", "9", ".", "2">>
min1       == <<"1">>
WithMinVersion(file, v) == [file EXCEPT !.MinVersion = v]
VersionDirectories ==
    { [toml |-> NoToml, local |-> NoToml, bl |-> NoBlocklist],
      [toml |-> TomlDiffMsg, local |-> NoToml, bl |-> NoBlocklist],
      [toml |-> WithMinVersion(TomlDiffMsg, minV0_10_0), local |-> NoToml, bl |-> NoBlocklist],
      [toml |-> TomlDiffMsg, local |-> WithMinVersion(TomlLocal, min0_9_2), bl |-> BlocklistD],
      [toml |-> WithMinVersion(TomlDiffMsg, min1), local |-> NoToml, bl |-> NoBlocklist],
      [toml |-> NoToml, local |-> NoToml, bl |-> BlocklistD] }

\* Every chain of these directories under every running version
InitVersion ==
    /\ fs \in [0..MaxDepth -> VersionDirectories]
    /\ flag = NoFlag
    /\ env = NoEnv
    /\ InitResolver
    /\ cmd = "config"
    /\ Version \in Versions
    /\ hooksInstalled = FALSE
    /\ msgFile = <<>>
    /\ msgOrig = <<>>
    /\ cleaned = <<>>
    /\ staged = NoDiff
    /\ result = NoResult
    /\ args = NoArgs
    /\ ret = NoReturn
    /\ commits = <<>>
    /\ rebase = NoBranch
    /\ git = NoGit
    /\ audit = NoAudit
    /\ shaIdx = 0
    /\ reports = <<>>

SpecVersion == InitVersion /\ [][Next]_vars

(***************************************************************************)
(* matchesPattern applied on its own                                       *)
(***************************************************************************)
IdleResolver ==
    /\ fs = [l \in 0..MaxDepth |-> [toml |-> NoToml, local |-> NoToml, bl |-> NoBlocklist]]
    /\ flag = NoFlag
    /\ env = NoEnv
    /\ current = 0
    /\ kind = configNone
    /\ found = FALSE
    /\ walked = EmptyConfig
    /\ accum = EmptyConfig
    /\ err = ""

InitMatch ==
    /\ cmd = "match"
    /\ pc = "call"
    /\ args \in [text : Texts, patterns : PatternLists]
    /\ ret = NoReturn
    /\ bc = EmptyConfig
    /\ msgFile = <<>>
    /\ msgOrig = <<>>
    /\ cleaned = <<>>
    /\ staged = NoDiff
    /\ result = NoResult
    /\ IdleResolver
    /\ IdleHistory

Match ==
    /\ cmd = "match"
    /\ pc = "call"
    /\ ret' = matchesPattern(args.text, args.patterns)
    /\ pc' = "returned"
    /\ UNCHANGED <<inputVars, walkVars, bc, accum, err, checkVars, args, loopVars>>

NextMatch == Match

SpecMatch == InitMatch /\ [][NextMatch]_vars

(***************************************************************************)
(* deduplicatePatterns applied on its own, then to its own result          *)
(***************************************************************************)
InitDedup ==
    /\ cmd = "dedup"
    /\ pc = "call"
    /\ args \in [text : {<<>>}, patterns : DedupLists]
    /\ ret = NoReturn
    /\ bc = EmptyConfig
    /\ msgFile = <<>>
    /\ msgOrig = <<>>
    /\ cleaned = <<>>
    /\ staged = NoDiff
    /\ result = NoResult
    /\ IdleResolver
    /\ IdleHistory

Dedup ==
    /\ cmd = "dedup"
    /\ pc = "call"
    /\ LET out == deduplicatePatterns(args.patterns)
       IN  ret' = [first |-> out, out |-> out]
    /\ pc' = "returned"
    /\ UNCHANGED <<inputVars, walkVars, bc, accum, err, checkVars, args, loopVars>>

DedupAgain ==
    /\ cmd = "dedup"
    /\ pc = "returned"
    /\ ret' = [ret EXCEPT !.out = deduplicatePatterns(ret.out)]
    /\ pc' = "again"
    /\ UNCHANGED <<inputVars, walkVars, bc, accum, err, checkVars, args, loopVars>>

NextDedup == Dedup \/ DedupAgain

SpecDedup == InitDedup /\ [][NextDedup]_vars

(***************************************************************************)
(* isTrailerLine applied on its own                                        *)
(***************************************************************************)
InitTrailer ==
    /\ cmd = "trailer"
    /\ pc = "call"
    /\ args \in [text : Lines, patterns : {<<>>}]
    /\ ret = NoReturn
    /\ bc = EmptyConfig
    /\ msgFile = <<>>
    /\ msgOrig = <<>>
    /\ cleaned = <<>>
    /\ staged = NoDiff
    /\ result = NoResult
    /\ IdleResolver
    /\ IdleHistory

Trailer ==
    /\ cmd = "trailer"
    /\ pc = "call"
    /\ ret' = [pattern |-> <<>>, found |-> isTrailerLine(args.text)]
    /\ pc' = "returned"
    /\ UNCHANGED <<inputVars, walkVars, bc, accum, err, checkVars, args, loopVars>>

NextTrailer == Trailer

SpecTrailer == InitTrailer /\ [][NextTrailer]_vars

(***************************************************************************)
(* runMsg: the commit message check, after the policy is resolved          *)
(***************************************************************************)
InitMsg ==
    /\ cmd = "msg"
    /\ pc = "resolved"
    /\ \E m \in MsgPatternLists : bc = [EmptyConfig EXCEPT !.Msg = m]
    /\ msgFile \in Messages
    /\ msgOrig = msgFile
    /\ cleaned = <<>>
    /\ staged = NoDiff
    /\ result = NoResult
    /\ args = NoArgs
    /\ ret = NoReturn
    /\ IdleResolver
    /\ IdleHistory

\* runMsg: nothing to check when the msg list is empty
MsgNoPatterns ==
    /\ cmd = "msg"
    /\ pc = "resolved"
    /\ Len(bc.Msg) = 0
    /\ pc' = "done"
    /\ UNCHANGED <<inputVars, walkVars, bc, accum, err, checkVars, fnVars, loopVars>>

\* runMsg, pass 1: strip the matching trailers, rewrite the file if any was removed
MsgPass1 ==
    /\ cmd = "msg"
    /\ pc = "resolved"
    /\ Len(bc.Msg) # 0
    /\ LET r == stripMatchingTrailers(Split(msgFile, "\n"), bc.Msg)
       IN  /\ cleaned' = r.kept
           /\ msgFile' = rewriteMessage(msgFile, r)
           /\ result' = [result EXCEPT !.removed = r.removed]
    /\ pc' = "pass2"
    /\ UNCHANGED <<inputVars, walkVars, bc, accum, err, msgOrig, staged,
                 fnVars, loopVars>>

\* runMsg, pass 2: a match in what is left rejects the commit
MsgPass2 ==
    /\ cmd = "msg"
    /\ pc = "pass2"
    /\ LET m == matchesPattern(Join(cleaned, "\n"), bc.Msg)
       IN  IF m.found
           THEN /\ result' = [result EXCEPT !.exit = 1, !.pattern = m.pattern]
                /\ err' = "policy violation"
           ELSE /\ UNCHANGED <<result, err>>
    /\ pc' = "done"
    /\ UNCHANGED <<inputVars, walkVars, bc, accum, msgFile, msgOrig, cleaned,
                 staged, fnVars, loopVars>>

NextMsg == MsgNoPatterns \/ MsgPass1 \/ MsgPass2

SpecMsg == InitMsg /\ [][NextMsg]_vars

(***************************************************************************)
(* runDiff: the staged diff check, after the policy is resolved            *)
(***************************************************************************)

\* `git diff --staged` for one file: the headers, the hunk header, the lines
gitDiffHeader(d) ==
    IF d.status = "added" THEN
        << <<"d", "i", "f", "f", " ", "-", "-", "g", "i", "t", " ", "a", "/">> \o d.name \o <<" ", "b", "/">> \o d.name,
           <<"n", "e", "w", " ", "f", "i", "l", "e", " ", "m", "o", "d", "e", " ", "1", "0", "0", "6", "4", "4">>,
           <<"i", "n", "d", "e", "x", " ", "0", ".", ".", "1">>,
           devNullOld,
           <<"+", "+", "+", " ", "b", "/">> \o d.name,
           <<"@", "@", " ", "-", "0", ",", "0", " ", "+", "1", " ", "@", "@">> >>
    ELSE IF d.status = "deleted" THEN
        << <<"d", "i", "f", "f", " ", "-", "-", "g", "i", "t", " ", "a", "/">> \o d.name \o <<" ", "b", "/">> \o d.name,
           <<"d", "e", "l", "e", "t", "e", "d", " ", "f", "i", "l", "e", " ", "m", "o", "d", "e", " ", "1", "0", "0", "6", "4", "4">>,
           <<"i", "n", "d", "e", "x", " ", "1", ".", ".", "0">>,
           <<"-", "-", "-", " ", "a", "/">> \o d.name,
           devNullNew,
           <<"@", "@", " ", "-", "1", " ", "+", "0", ",", "0", " ", "@", "@">> >>
    ELSE
        << <<"d", "i", "f", "f", " ", "-", "-", "g", "i", "t", " ", "a", "/">> \o d.name \o <<" ", "b", "/">> \o d.name,
           <<"i", "n", "d", "e", "x", " ", "1", ".", ".", "2", " ", "1", "0", "0", "6", "4", "4">>,
           <<"-", "-", "-", " ", "a", "/">> \o d.name,
           <<"+", "+", "+", " ", "b", "/">> \o d.name,
           <<"@", "@", " ", "-", "1", " ", "+", "1", " ", "@", "@">> >>

gitDiffStaged(d) ==
    Join(gitDiffHeader(d) \o [i \in 1..Len(d.lines) |-> <<d.lines[i].op>> \o d.lines[i].text],
         "\n")

InitDiff ==
    /\ cmd = "diff"
    /\ pc = "resolved"
    /\ \E m \in DiffPatternLists : bc = [EmptyConfig EXCEPT !.Diff = m]
    /\ staged \in StagedChanges
    /\ msgFile = <<>>
    /\ msgOrig = <<>>
    /\ cleaned = <<>>
    /\ result = NoResult
    /\ args = NoArgs
    /\ ret = NoReturn
    /\ IdleResolver
    /\ IdleHistory

\* runDiff: nothing to check when the diff list is empty
DiffNoPatterns ==
    /\ cmd = "diff"
    /\ pc = "resolved"
    /\ Len(bc.Diff) = 0
    /\ pc' = "done"
    /\ UNCHANGED <<inputVars, walkVars, bc, accum, err, checkVars, fnVars, loopVars>>

\* runDiff: match the added content of the staged diff
DiffCheck ==
    /\ cmd = "diff"
    /\ pc = "resolved"
    /\ Len(bc.Diff) # 0
    /\ LET m == matchesPattern(stripDiffNoise(stripDiffMeta(gitDiffStaged(staged))), bc.Diff)
       IN  IF "diff" \in git.fail
           THEN /\ err' = "git diff --staged"
                /\ pc' = "failed"
                /\ result' = result
           ELSE IF m.found
           THEN /\ result' = [result EXCEPT !.exit = 1, !.pattern = m.pattern]
                /\ err' = "policy violation"
                /\ pc' = "done"
           ELSE /\ UNCHANGED <<result, err>>
                /\ pc' = "done"
    /\ UNCHANGED <<inputVars, walkVars, bc, accum, msgFile, msgOrig, cleaned,
                 staged, fnVars, loopVars>>

NextDiff == DiffNoPatterns \/ DiffCheck

SpecDiff == InitDiff /\ [][NextDiff]_vars

(***************************************************************************)
(* The git collaborator                                                    *)
(***************************************************************************)

\* the git commands the checks run; git.fail holds the ones that fail
gitCalls == {"diff", "rev-list", "log", "diff-tree"}

\* the first-parent ancestors of HEAD, HEAD included, as positions in the history
mainline(g) == {i \in 1..Len(g.history) : i \notin g.side}

\* `git rev-list HEAD`: every commit, from HEAD
gitRevListHead(g) ==
    IF "rev-list" \in g.fail THEN [err |-> TRUE, shas |-> <<>>]
    ELSE [err |-> FALSE, shas |-> [i \in 1..Len(g.history) |-> i]]

\* `git rev-list HEAD~n..HEAD`: the commits listed before the n-th first-parent
\* ancestor of HEAD; an error when HEAD has no such ancestor
gitRevListBack(g, n) ==
    IF "rev-list" \in g.fail \/ Cardinality(mainline(g)) <= n
    THEN [err |-> TRUE, shas |-> <<>>]
    ELSE LET k == CHOOSE k \in mainline(g) :
                      Cardinality({j \in mainline(g) : j < k}) = n
         IN  [err |-> FALSE, shas |-> [i \in 1..(k - 1) |-> i]]

\* the commit id git prints for the i-th commit listed
shaOf(i) == <<"c", <<"1", "2", "3", "4">>[((i - 1) % 4) + 1]>>

\* `git log -1 --format=%B sha`: the message and a line feed
gitLogBody(c) == c.msg \o <<"\n">>

\* `git diff-tree -p sha`: the commit id, then the patch
gitDiffTree(c, i) == shaOf(i) \o <<"\n">> \o gitDiffStaged(c.change)

(***************************************************************************)
(* runPush: the check of the commits about to be pushed                    *)
(***************************************************************************)

\* runPush, one iteration of the loop: the message first, then the diff; a
\* git command that fails ends the check
pushCheckCommit(c, i, patterns, fail) ==
    LET m == matchesPattern(gitLogBody(c), patterns)
        d == matchesPattern(stripDiffNoise(stripDiffMeta(gitDiffTree(c, i))), patterns)
        clean == [err |-> "", found |-> FALSE, kind |-> "", pattern |-> <<>>]
    IN  IF "log" \in fail THEN [clean EXCEPT !.err = "git log"]
        ELSE IF m.found THEN [clean EXCEPT !.found = TRUE, !.kind = "msg", !.pattern = m.pattern]
        ELSE IF "diff-tree" \in fail THEN [clean EXCEPT !.err = "git diff-tree"]
        ELSE IF d.found THEN [clean EXCEPT !.found = TRUE, !.kind = "diff", !.pattern = d.pattern]
        ELSE clean

\* commits holds what `git rev-list` of the unpushed range lists
InitPush ==
    /\ Version = devBuild
    /\ hooksInstalled = FALSE
    /\ cmd = "push"
    /\ pc = "resolved"
    /\ bc \in PushPolicies
    /\ commits \in Histories
    /\ rebase = NoBranch
    /\ git = NoGit
    /\ audit = NoAudit
    /\ shaIdx = 0
    /\ reports = <<>>
    /\ msgFile = <<>>
    /\ msgOrig = <<>>
    /\ cleaned = <<>>
    /\ staged = NoDiff
    /\ result = NoResult
    /\ args = NoArgs
    /\ ret = NoReturn
    /\ IdleResolver

\* runPush: nothing to do without push patterns or without commits
PushStart ==
    /\ cmd = "push"
    /\ pc = "resolved"
    /\ IF Len(PushPatterns(bc)) = 0
       THEN pc' = "done" /\ UNCHANGED <<shaIdx, err>>
       ELSE IF "rev-list" \in git.fail
       THEN pc' = "failed" /\ err' = "git rev-list" /\ shaIdx' = shaIdx
       ELSE IF Len(commits) = 0
       THEN pc' = "done" /\ UNCHANGED <<shaIdx, err>>
       ELSE pc' = "push" /\ shaIdx' = 1 /\ err' = err
    /\ UNCHANGED <<inputVars, walkVars, bc, accum, checkVars, fnVars, commits, reports>>

\* runPush, the loop: stop at the first commit with a match
PushCommit ==
    /\ cmd = "push"
    /\ pc = "push"
    /\ LET v == pushCheckCommit(commits[shaIdx], shaIdx, PushPatterns(bc), git.fail)
       IN  IF v.err # ""
           THEN /\ err' = v.err
                /\ pc' = "failed"
                /\ UNCHANGED <<result, reports, shaIdx>>
           ELSE IF v.found
           THEN /\ result' = [result EXCEPT !.exit = 1, !.pattern = v.pattern]
                /\ reports' = <<[sha |-> shaIdx,
                                 matches |-> <<[kind |-> v.kind, pattern |-> v.pattern]>>]>>
                /\ err' = "policy violation"
                /\ pc' = "done"
                /\ shaIdx' = shaIdx
           ELSE /\ UNCHANGED <<result, reports, err>>
                /\ IF shaIdx = Len(commits)
                   THEN pc' = "done" /\ shaIdx' = shaIdx
                   ELSE pc' = "push" /\ shaIdx' = shaIdx + 1
    /\ UNCHANGED <<inputVars, walkVars, bc, accum, msgFile, msgOrig, cleaned, staged,
                   fnVars, commits>>

NextPush == PushStart \/ PushCommit

SpecPush == InitPush /\ [][NextPush]_vars

(***************************************************************************)
(* runAudit: the scan of the history                                       *)
(***************************************************************************)

\* matchesBlocklist: the first pattern, in list order, that the lowercased
\* text contains
matchesBlocklist(text, patterns) == scanPatterns(ToLower(text), patterns)

\* Mutant: the window is not capped at the limit
auditRevListNoCap(g, a) ==
    LET out == IF a.given THEN gitRevListBack(g, a.back)
               ELSE IF a.limit = 0 THEN gitRevListHead(g)
               ELSE gitRevListBack(g, a.limit)
        all == IF out.err /\ ~a.given /\ a.limit > 0 THEN gitRevListHead(g) ELSE out
    IN  IF g.history = <<>> THEN [err |-> FALSE, shas |-> <<>>]
        ELSE all

\* auditRevList: the explicit range, else the whole history when the limit is
\* 0, else the last `limit` commits; when that window does not exist the whole
\* history is listed; without a range the list is cut at the limit
auditRevList(g, a) ==
    LET out == IF a.given THEN gitRevListBack(g, a.back)
               ELSE IF a.limit = 0 THEN gitRevListHead(g)
               ELSE gitRevListBack(g, a.limit)
        all == IF out.err /\ ~a.given /\ a.limit > 0 THEN gitRevListHead(g) ELSE out
    IN  IF g.history = <<>> THEN [err |-> FALSE, shas |-> <<>>]
        ELSE IF all.err THEN all
        ELSE IF ~a.given /\ a.limit > 0 /\ Len(all.shas) > a.limit
        THEN [all EXCEPT !.shas = SubSeq(all.shas, 1, a.limit)]
        ELSE all

\* scanCommit: msg patterns on the message, diff patterns on the diff; a git
\* command that fails is skipped
scanCommit(c, i, config, fail) ==
    LET m == matchesBlocklist(gitLogBody(c), config.Msg)
        d == matchesBlocklist(stripDiffNoise(stripDiffMeta(gitDiffTree(c, i))), config.Diff)
    IN  [sha |-> i,
         matches |->
             (IF Len(config.Msg) > 0 /\ "log" \notin fail /\ m.found
              THEN <<[kind |-> "msg", pattern |-> m.pattern]>> ELSE <<>>)
             \o (IF Len(config.Diff) > 0 /\ "diff-tree" \notin fail /\ d.found
                 THEN <<[kind |-> "diff", pattern |-> d.pattern]>> ELSE <<>>)]

\* runAudit: nothing to do without diff and msg patterns or without commits;
\* else the commits of the selected range are listed
AuditStart ==
    /\ cmd = "audit"
    /\ pc = "resolved"
    /\ IF Len(bc.Diff) = 0 /\ Len(bc.Msg) = 0
       THEN pc' = "done" /\ UNCHANGED <<commits, shaIdx, err>>
       ELSE LET l == auditRevList(git, audit)
            IN  IF l.err
                THEN pc' = "failed" /\ err' = "git rev-list" /\ UNCHANGED <<commits, shaIdx>>
                ELSE IF Len(l.shas) = 0
                THEN pc' = "done" /\ UNCHANGED <<commits, shaIdx, err>>
                ELSE /\ commits' = [i \in 1..Len(l.shas) |-> git.history[l.shas[i]]]
                     /\ pc' = "audit"
                     /\ shaIdx' = 1
                     /\ err' = err
    /\ UNCHANGED <<inputVars, walkVars, bc, accum, checkVars, fnVars, reports>>

\* runAudit, the loop: every commit is scanned, reports with matches are kept
AuditScan ==
    /\ cmd = "audit"
    /\ pc = "audit"
    /\ LET r == scanCommit(commits[shaIdx], shaIdx, bc, git.fail)
       IN  reports' = IF Len(r.matches) > 0 THEN Append(reports, r) ELSE reports
    /\ IF shaIdx = Len(commits)
       THEN pc' = "report" /\ shaIdx' = shaIdx
       ELSE pc' = "audit" /\ shaIdx' = shaIdx + 1
    /\ UNCHANGED <<inputVars, walkVars, bc, accum, err, checkVars, fnVars, commits>>

\* runAudit, the end: failure when any violation was collected
AuditReport ==
    /\ cmd = "audit"
    /\ pc = "report"
    /\ IF Len(reports) > 0
       THEN /\ result' = [result EXCEPT !.exit = 1]
            /\ err' = "policy violations found"
       ELSE UNCHANGED <<result, err>>
    /\ pc' = "done"
    /\ UNCHANGED <<inputVars, walkVars, bc, accum, msgFile, msgOrig, cleaned, staged,
                   fnVars, loopVars>>

NextAudit == AuditStart \/ AuditScan \/ AuditReport

\* Resolved policies for the audit: diff and msg lists apart, one of them
\* empty, both empty
AuditPolicies ==
    {[EmptyConfig EXCEPT !.Diff = d, !.Msg = m, !.Branch = defaultProtectedBranches] :
        d \in {<<>>, <<patS>>, <<patH, patS>>}, m \in {<<>>, <<patH>>}}

\* the whole history is audited, every git command succeeds
InitAudit ==
    /\ Version = devBuild
    /\ hooksInstalled = FALSE
    /\ cmd = "audit"
    /\ pc = "resolved"
    /\ bc \in AuditPolicies
    /\ \E h \in Histories : git = [NoGit EXCEPT !.history = h]
    /\ audit = NoAudit
    /\ commits = <<>>
    /\ rebase = NoBranch
    /\ shaIdx = 0
    /\ reports = <<>>
    /\ msgFile = <<>>
    /\ msgOrig = <<>>
    /\ cleaned = <<>>
    /\ staged = NoDiff
    /\ result = NoResult
    /\ args = NoArgs
    /\ ret = NoReturn
    /\ IdleResolver

SpecAudit == InitAudit /\ [][NextAudit]_vars

(***************************************************************************)
(* runRebase: the guard of protected branches                              *)
(***************************************************************************)

\* runRebase: without a branch argument and without a current branch (a
\* detached HEAD) the guard fails before the policy is resolved
RebaseNoBranch ==
    /\ cmd = "rebase"
    /\ pc = "start"
    /\ ~rebase.allow
    /\ noBranch(rebase, git)
    /\ pc' = "failed"
    /\ err' = "git symbolic-ref"
    /\ UNCHANGED <<inputVars, walkVars, bc, accum, checkVars, fnVars, loopVars>>

\* runRebase: SNAG_ALLOW_REBASE=1 passes before anything is resolved
RebaseAllowed ==
    /\ cmd = "rebase"
    /\ pc = "start"
    /\ rebase.allow
    /\ pc' = "done"
    /\ UNCHANGED <<inputVars, walkVars, bc, accum, err, checkVars, fnVars, loopVars>>

\* runRebase: a protected branch is not rebased
RebaseCheck ==
    /\ cmd = "rebase"
    /\ pc = "resolved"
    /\ IF isProtected(rebaseBranch(rebase), bc.Branch)
       THEN /\ result' = [result EXCEPT !.exit = 1]
            /\ err' = "rebase blocked"
       ELSE UNCHANGED <<result, err>>
    /\ pc' = "done"
    /\ UNCHANGED <<inputVars, walkVars, bc, accum, msgFile, msgOrig, cleaned, staged,
                   fnVars, loopVars>>

NextRebase == RebaseAllowed \/ RebaseNoBranch \/ RebaseCheck

\* Branch lists in config files: an exact name, two globs
brRelGlob == <<"r", "e", "*">>
brDevGlob == <<"d", "?", "v">>
RebaseDirectories ==
    { [toml |-> NoToml, local |-> NoToml, bl |-> NoBlocklist],
      [toml |-> Toml(<<>>, <<>>, FALSE, <<>>, <<brDev>>), local |-> NoToml,
       bl |-> NoBlocklist],
      [toml |-> Toml(<<>>, <<>>, FALSE, <<>>, <<brRelGlob>>),
       local |-> Toml(<<>>, <<>>, FALSE, <<>>, <<brDevGlob>>), bl |-> NoBlocklist] }
RebaseEnvs == {NoEnv, [NoEnv EXCEPT !.branches = ToLower(brMainUp)]}
RebaseBranches ==
    [arg : {<<>>, brDev, <<"r", "e", "/", "x">>, <<"r", "e", "l", "x">>},
     current : {brMainUp, <<"D", "e", "v">>, <<"d", "x", "v">>},
     allow : BOOLEAN]

InitRebase ==
    /\ Version = devBuild
    /\ hooksInstalled = FALSE
    /\ fs \in [0..MaxDepth -> RebaseDirectories]
    /\ flag = NoFlag
    /\ env \in RebaseEnvs
    /\ InitResolver
    /\ cmd = "rebase"
    /\ rebase \in RebaseBranches
    /\ \E f \in {{}, {"symbolic-ref"}} : git = [NoGit EXCEPT !.fail = f]
    /\ audit = NoAudit
    /\ commits = <<>>
    /\ shaIdx = 0
    /\ reports = <<>>
    /\ msgFile = <<>>
    /\ msgOrig = <<>>
    /\ cleaned = <<>>
    /\ staged = NoDiff
    /\ result = NoResult
    /\ args = NoArgs
    /\ ret = NoReturn

NextGuard == Resolve \/ NextRebase

SpecRebase == InitRebase /\ [][NextGuard]_vars

(***************************************************************************)
(* The checks that ask git, with git commands that fail                    *)
(***************************************************************************)
GitHistories ==
    { <<>>,
      <<[msg |-> <<"x", " ", "S">>, change |-> changeClean]>>,
      <<[msg |-> <<"x", " ", "q">>, change |-> changeClean],
        [msg |-> <<"x", " ", "q">>, change |-> changeAdded]>> }

GitInputs ==
    \/ /\ cmd = "diff"
       /\ \E d \in {<<>>, <<patS>>} : bc = [EmptyConfig EXCEPT !.Diff = d]
       /\ staged \in {changeClean, changeAdded}
       /\ commits = <<>>
       /\ \E f \in SUBSET gitCalls : git = [NoGit EXCEPT !.fail = f]
       /\ audit = NoAudit
    \/ /\ cmd = "push"
       /\ bc \in PushPolicies
       /\ staged = NoDiff
       /\ commits \in GitHistories
       /\ \E f \in SUBSET gitCalls : git = [NoGit EXCEPT !.fail = f]
       /\ audit = NoAudit
    \/ /\ cmd = "audit"
       /\ bc \in AuditPolicies
       /\ staged = NoDiff
       /\ commits = <<>>
       /\ \E h \in GitHistories, f \in SUBSET gitCalls :
              git = [NoGit EXCEPT !.history = h, !.fail = f]
       /\ audit \in {NoAudit, [NoAudit EXCEPT !.limit = 1]}

InitGit ==
    /\ Version = devBuild
    /\ hooksInstalled = FALSE
    /\ pc = "resolved"
    /\ GitInputs
    /\ rebase = NoBranch
    /\ shaIdx = 0
    /\ reports = <<>>
    /\ msgFile = <<>>
    /\ msgOrig = <<>>
    /\ cleaned = <<>>
    /\ result = NoResult
    /\ args = NoArgs
    /\ ret = NoReturn
    /\ IdleResolver

NextGit == NextDiff \/ NextPush \/ NextAudit

SpecGit == InitGit /\ [][NextGit]_vars

(***************************************************************************)
(* The audit over histories with merges, with a range or a limit           *)
(***************************************************************************)
RangeCommits ==
    { [msg |-> <<"x", " ", "q">>, change |-> changeClean],
      [msg |-> <<"x", " ", "S">>, change |-> changeAdded] }

\* histories listed from HEAD; commits of merged side branches sit between
\* HEAD and the root commit
RangeRepositories ==
    UNION {[history : [1..n -> RangeCommits], side : SUBSET (2..(n - 1)), fail : {{}}] :
              n \in 0..(MaxCommits + 1)}

\* HEAD~back..HEAD with the limit flag given or left alone, or no range
RangeRequests ==
    [given : {TRUE}, back : 0..MaxCommits, limit : {0, 1}]
      \cup [given : {FALSE}, back : {0}, limit : 0..MaxCommits]

InitRange ==
    /\ Version = devBuild
    /\ hooksInstalled = FALSE
    /\ cmd = "audit"
    /\ pc = "resolved"
    /\ bc = [EmptyConfig EXCEPT !.Diff = <<patS>>, !.Msg = <<patH>>,
                                !.Branch = defaultProtectedBranches]
    /\ git \in RangeRepositories
    /\ audit \in RangeRequests
    /\ commits = <<>>
    /\ rebase = NoBranch
    /\ shaIdx = 0
    /\ reports = <<>>
    /\ msgFile = <<>>
    /\ msgOrig = <<>>
    /\ cleaned = <<>>
    /\ staged = NoDiff
    /\ result = NoResult
    /\ args = NoArgs
    /\ ret = NoReturn
    /\ IdleResolver

SpecRange == InitRange /\ [][NextAudit]_vars

(***************************************************************************)
(* checkout.go: runCheckout                                                *)
(***************************************************************************)

\* runCheckout: nothing to do when the policy holds no pattern or the hooks
\* are installed; an error otherwise
CheckoutRun ==
    /\ cmd = "checkout"
    /\ pc = "resolved"
    /\ IF ~HasAnyPatterns(bc) \/ hooksInstalled
       THEN UNCHANGED <<result, err>>
       ELSE /\ result' = [result EXCEPT !.exit = 1]
            /\ err' = "snag hooks not installed"
    /\ pc' = "done"
    /\ UNCHANGED <<inputVars, walkVars, bc, accum, msgFile, msgOrig, cleaned, staged,
                   fnVars, loopVars>>

TomlNoPatterns == Toml(<<>>, <<>>, FALSE, <<>>, <<>>)

CheckoutDirectories ==
    { [toml |-> NoToml, local |-> NoToml, bl |-> NoBlocklist],
      [toml |-> TomlNoPatterns, local |-> NoToml, bl |-> BlocklistD],
      [toml |-> TomlDiffMsg, local |-> NoToml, bl |-> NoBlocklist],
      [toml |-> NoToml, local |-> NoToml, bl |-> BlocklistNoPats],
      [toml |-> NoToml, local |-> NoToml, bl |-> BlocklistD] }

CheckoutFlags ==
    { NoFlag,
      [changed |-> TRUE, file |-> BlocklistNoPats],
      [changed |-> TRUE, file |-> BlocklistMixed] }

InitCheckout ==
    /\ Version = devBuild
    /\ hooksInstalled \in BOOLEAN
    /\ fs \in [0..MaxDepth -> CheckoutDirectories]
    /\ flag \in CheckoutFlags
    /\ env \in [blocklist : EnvBlocklists, branches : EnvBranches, ignore : {<<>>}]
    /\ InitResolver
    /\ cmd = "checkout"
    /\ msgFile = <<>>
    /\ msgOrig = <<>>
    /\ cleaned = <<>>
    /\ staged = NoDiff
    /\ result = NoResult
    /\ args = NoArgs
    /\ ret = NoReturn
    /\ commits = <<>>
    /\ rebase = NoBranch
    /\ git = NoGit
    /\ audit = NoAudit
    /\ shaIdx = 0
    /\ reports = <<>>

NextCheckout == Resolve \/ CheckoutRun

SpecCheckout == InitCheckout /\ [][NextCheckout]_vars

(***************************************************************************)
(* The checks behind a walk over broken config files                       *)
(***************************************************************************)
BrokenDirectories ==
    { [toml |-> NoToml, local |-> NoToml, bl |-> NoBlocklist],
      [toml |-> TomlDiffMsg, local |-> NoToml, bl |-> NoBlocklist],
      [toml |-> BadToml, local |-> NoToml, bl |-> BlocklistD],
      [toml |-> [TomlDiffMsg EXCEPT !.unreadable = TRUE], local |-> NoToml, bl |-> NoBlocklist],
      [toml |-> TomlDiffMsg, local |-> WithMinVersion(TomlLocal, min1), bl |-> NoBlocklist],
      [toml |-> NoToml, local |-> NoToml, bl |-> BlocklistD],
      [toml |-> NoToml, local |-> NoToml, bl |-> [BlocklistD EXCEPT !.unreadable = TRUE]] }

msgTrailerB == <<"x", " ", "d", "\n", "\n", "K", ":", " ", "b">>
msgBodyB    == <<"x", " ", "b">>
changeAB    == [name |-> <<"q">>, status |-> "modified",
                lines |-> <<[op |-> "+", text |-> <<"a", " ", "d">>]>>]
historyAB   == <<[msg |-> msgBodyB, change |-> changeAB]>>

BrokenInputs ==
    \/ /\ cmd = "msg"
       /\ msgFile \in {msgTrailerB, msgBodyB}
       /\ staged = NoDiff /\ commits = <<>> /\ git = NoGit
    \/ /\ cmd = "diff"
       /\ staged = changeAB
       /\ msgFile = <<>> /\ commits = <<>> /\ git = NoGit
    \/ /\ cmd = "push"
       /\ commits = historyAB
       /\ msgFile = <<>> /\ staged = NoDiff /\ git = NoGit
    \/ /\ cmd = "audit"
       /\ git = [NoGit EXCEPT !.history = historyAB]
       /\ msgFile = <<>> /\ staged = NoDiff /\ commits = <<>>

InitBroken ==
    /\ fs \in [0..MaxDepth -> BrokenDirectories]
    /\ flag = NoFlag
    /\ env = NoEnv
    /\ Version \in {devBuild, ver0_9_1}
    /\ hooksInstalled = FALSE
    /\ InitResolver
    /\ BrokenInputs
    /\ msgOrig = msgFile
    /\ audit = NoAudit
    /\ rebase = NoBranch
    /\ cleaned = <<>>
    /\ result = NoResult
    /\ args = NoArgs
    /\ ret = NoReturn
    /\ shaIdx = 0
    /\ reports = <<>>

NextBroken == Resolve \/ NextMsg \/ NextDiff \/ NextPush \/ NextAudit

SpecBroken == InitBroken /\ [][NextBroken]_vars

(***************************************************************************)
(* A hook invocation from start to end: the policy is resolved, then the   *)
(* phase check runs                                                        *)
(***************************************************************************)
HookDirectories ==
    { [toml |-> NoToml, local |-> NoToml, bl |-> NoBlocklist],
      [toml |-> Toml(<<patS>>, <<patH>>, FALSE, <<>>, <<>>), local |-> NoToml,
       bl |-> NoBlocklist],
      [toml |-> NoToml, local |-> NoToml, bl |-> Blocklist(<<"s", "\n">>)] }
HookFlags == {NoFlag, [changed |-> TRUE, file |-> Blocklist(<<"h", "\n">>)]}
HookEnvs  == {NoEnv, [NoEnv EXCEPT !.branches = brDev]}

HookMessages == {<<"x", " ", "S">>, <<"h", ":", " ", "S", "\n", "x", " ", "q">>}
HookChanges  == {changeClean, changeAdded}
HookHistories ==
    { <<>>,
      <<[msg |-> <<"x", " ", "q">>, change |-> changeClean]>>,
      <<[msg |-> <<"x", " ", "S">>, change |-> changeAdded], [msg |-> <<"x", " ", "q">>, change |-> changeClean]>> }
HookBranches ==
    [arg : {<<>>, brDev}, current : {ToLower(brMainUp), brMainUp}, allow : BOOLEAN]

\* what each phase check is run on
HookInputs ==
    \/ /\ cmd = "msg"
       /\ msgFile \in HookMessages
       /\ staged = NoDiff /\ commits = <<>> /\ rebase = NoBranch
       /\ git = NoGit /\ audit = NoAudit
    \/ /\ cmd = "diff"
       /\ staged \in HookChanges
       /\ msgFile = <<>> /\ commits = <<>> /\ rebase = NoBranch
       /\ git = NoGit /\ audit = NoAudit
    \/ /\ cmd = "push"
       /\ commits \in HookHistories
       /\ msgFile = <<>> /\ staged = NoDiff /\ rebase = NoBranch
       /\ git = NoGit /\ audit = NoAudit
    \/ /\ cmd = "audit"
       /\ \E h \in HookHistories : git = [NoGit EXCEPT !.history = h]
       /\ audit = NoAudit
       /\ msgFile = <<>> /\ staged = NoDiff /\ rebase = NoBranch /\ commits = <<>>
    \/ /\ cmd = "rebase"
       /\ rebase \in HookBranches
       /\ msgFile = <<>> /\ staged = NoDiff /\ commits = <<>>
       /\ git = NoGit /\ audit = NoAudit

InitHooks ==
    /\ Version = devBuild
    /\ hooksInstalled = FALSE
    /\ fs \in [0..MaxDepth -> HookDirectories]
    /\ flag \in HookFlags
    /\ env \in HookEnvs
    /\ InitResolver
    /\ HookInputs
    /\ msgOrig = msgFile
    /\ cleaned = <<>>
    /\ result = NoResult
    /\ args = NoArgs
    /\ ret = NoReturn
    /\ shaIdx = 0
    /\ reports = <<>>

NextHooks ==
    \/ Resolve
    \/ NextMsg
    \/ NextDiff
    \/ NextPush
    \/ NextAudit
    \/ RebaseAllowed \/ RebaseCheck

SpecHooks == InitHooks /\ [][NextHooks]_vars

(***************************************************************************)
(* Properties of the resolver                                              *)
(***************************************************************************)
Range(s) == {s[i] : i \in 1..Len(s)}

Levels == 0..MaxDepth

NoDuplicates(s) == \A i, j \in 1..Len(s) : s[i] = s[j] => i = j

\* u lists each distinct element of x once, in the order of first occurrence in x
IsFirstOccurrenceList(u, x) ==
    /\ NoDuplicates(u)
    /\ Range(u) = Range(x)
    /\ \A i, j \in 1..Len(u) :
           i < j => Index(x, <<u[i]>>) < Index(x, <<u[j]>>)

\* The content patterns (lowercased) and branch patterns some structured
\* file of the chain holds, and those some legacy file holds
StructuredFiles == {fs[l].toml : l \in Levels} \cup {fs[l].local : l \in Levels}
StructuredContent ==
    UNION {Range(lowercaseAll(f.Diff)) \cup Range(lowercaseAll(f.Msg))
               \cup Range(lowercaseAll(f.Push)) : f \in StructuredFiles}
StructuredBranches == UNION {Range(f.Branch) : f \in StructuredFiles}
LegacyContent == UNION {Range(loadBlocklist(fs[l].bl).patterns) : l \in Levels}
EnvContent == Range(loadEnvBlocklist(env.blocklist))
EnvBranchNames == Range(envProtectedBranches(env.branches))

ResolvedContent == Range(bc.Diff) \cup Range(bc.Msg) \cup Range(PushPatterns(bc))

\* What one level adds in structured mode, and in legacy mode
AddsStructured(c, d) ==
    LET files == (IF d.toml.exists THEN <<d.toml>> ELSE <<>>)
                     \o (IF d.local.exists THEN <<d.local>> ELSE <<>>)
        cat(field) == IF Len(files) = 0 THEN <<>>
                      ELSE IF Len(files) = 1 THEN files[1][field]
                      ELSE files[1][field] \o files[2][field]
    IN  /\ c.Diff \o cat("Diff") = bc'.Diff
        /\ c.Msg \o cat("Msg") = bc'.Msg
        /\ c.Branch \o cat("Branch") = bc'.Branch

AddsLegacy(c, d) ==
    LET pats == loadBlocklist(d.bl).patterns
    IN  /\ c.Diff \o pats = bc'.Diff
        /\ c.Msg \o pats = bc'.Msg
        /\ c.Branch = bc'.Branch

\* C1 (step): once the walk has a mode it keeps it, and a level examined in
\* a mode adds the patterns of that mode's files and nothing else.
ModeCommittedStep ==
    /\ kind # configNone => kind' = kind
    /\ (pc = "walk" /\ pc' # "failed" /\ kind = configTOML)
           => AddsStructured(bc, fs[current])
    /\ (pc = "walk" /\ pc' # "failed" /\ kind = configBlocklist)
           => AddsLegacy(bc, fs[current])

\* C1 (result): after a structured-mode walk no pattern found only in legacy
\* files is in the resolved policy; after a legacy-mode walk no pattern
\* found only in structured files is.
ModeCommittedResult ==
    (pc = "resolved" /\ ~flag.changed) =>
        /\ kind = configTOML =>
               (LegacyContent \ (StructuredContent \cup EnvContent))
                   \cap ResolvedContent = {}
        /\ kind = configBlocklist =>
               /\ (StructuredContent \ (LegacyContent \cup EnvContent))
                      \cap ResolvedContent = {}
               /\ (StructuredBranches
                       \ (EnvBranchNames \cup Range(defaultProtectedBranches)))
                      \cap Range(bc.Branch) = {}

\* C1: the walk's mode is fixed at the first level holding a config file and
\* never changes; above it only files of that mode contribute, so a parent's
\* legacy file adds nothing under a structured child, and the reverse.
C1_ModeCommitted == [][ModeCommittedStep]_vars /\ []ModeCommittedResult

\* C1 witness: structured file in the start directory, only a legacy file in
\* its parent, resolution finished without the legacy pattern
C1_Witness ==
    /\ pc = "resolved"
    /\ fs[0].toml = TomlDiffMsg
    /\ fs[1].bl = BlocklistD /\ ~fs[1].toml.exists /\ ~fs[1].local.exists
    /\ kind = configTOML
    /\ patD \notin ResolvedContent
    /\ bc.Diff = <<patA>>

\* Some structured file of the chain sets push; every one that does sets it
\* to the empty array; nothing else contributes to push
OnlyExplicitEmptyPush ==
    /\ ~flag.changed
    /\ kind = configTOML
    /\ \E f \in StructuredFiles : f.exists /\ f.PushSet
    /\ \A f \in StructuredFiles : f.exists /\ f.PushSet => f.Push = <<>>
    /\ env.blocklist = <<>>
    /\ env.ignore = <<>>

\* C2: with push set to an explicit empty array and no other source of push
\* patterns, the effective push set of the resolved policy is empty.
C2_ExplicitEmptyPush ==
    (pc = "resolved" /\ OnlyExplicitEmptyPush) => PushPatterns(bc) = <<>>

\* No source sets push: no flag, no legacy mode, no structured file with a push key
NoSourceSetsPush ==
    /\ ~flag.changed
    /\ kind # configBlocklist
    /\ \A f \in StructuredFiles : f.exists => ~f.PushSet

\* C3: when no source sets push, the effective push set is the resolved diff
\* patterns followed by the resolved msg patterns without repetitions (first
\* occurrences), and push itself stays unset in the resolved policy.
C3_PushFallback ==
    (pc = "resolved" /\ NoSourceSetsPush) =>
        /\ bc.PushNil
        /\ bc.Push = <<>>
        /\ IsFirstOccurrenceList(PushPatterns(bc), bc.Diff \o bc.Msg)

\* C3 witness: diff = [a], msg = [b], an environment blocklist, push unset
C3_Witness ==
    /\ pc = "resolved"
    /\ NoSourceSetsPush
    /\ env.blocklist # <<>>
    /\ bc.Diff = <<patA, patC>>
    /\ bc.Msg = <<patB, patC, patA>>
    /\ PushPatterns(bc) = <<patA, patC, patB>>

\* The entries of the suppression list that name a phase
EntriesOf(phase) ==
    {e \in Range(ignoreEntries(env.ignore)) : e.phase = phase}

Suppressed(phase, x) ==
    \E e \in EntriesOf(phase) : ~e.hasPattern \/ ToLower(e.pattern) = ToLower(x)

\* The final list is what was accumulated, minus the suppressed patterns
SuppressedList(final, accumulated, phase, lower) ==
    /\ \A x \in Range(final) : ~Suppressed(phase, x)
    /\ LET kept == SelectSeq(accumulated, LAMBDA x : ~Suppressed(phase, x))
       IN  IsFirstOccurrenceList(final, IF lower THEN lowercaseAll(kept) ELSE kept)

ContainsFold(text, p) ==
    \E i \in 0..(Len(text) - Len(p)) :
        \A k \in 1..Len(p) : LowerChar(text[i + k]) = LowerChar(p[k])

Hits(text, patterns) ==
    {i \in 1..Len(patterns) : Contains(ToLower(text), patterns[i])}

\* C6: matchesPattern returns the pattern with the smallest list index among
\* the patterns that are substrings of the lowercased text, and (empty, false)
\* when there is none; where a pattern occurs in the text plays no part.
C6_FirstInListOrder ==
    pc = "returned" =>
        LET h == Hits(args.text, args.patterns)
        IN  IF h = {} THEN ret = [pattern |-> <<>>, found |-> FALSE]
            ELSE /\ ret.found
                 /\ \E i \in h : /\ \A j \in h : i <= j
                                 /\ ret.pattern = args.patterns[i]

\* the second pattern of the list occurs first in the text; the first one is returned
C6_Witness ==
    /\ pc = "returned"
    /\ args.text = <<"b", "a">>
    /\ args.patterns = <<patA, patB>>
    /\ ret = [pattern |-> patA, found |-> TRUE]

(***************************************************************************)
(* Properties of the commit message check                                  *)
(***************************************************************************)
origLines == Split(msgOrig, "\n")

LineMatches(line, patterns) == \E p \in Range(patterns) : ContainsFold(line, p)

MatchingTrailer(line, patterns) == isTrailerLine(line) /\ LineMatches(line, patterns)

\* The original message without its matching trailer lines
WithoutMatchingTrailers ==
    Join(SelectSeq(origLines, LAMBDA l : ~MatchingTrailer(l, bc.Msg)), "\n")

\* A matching trailer line and a matching line that is not a trailer
TrailerAndBodyMatch ==
    /\ cmd = "msg"
    /\ \E i \in 1..Len(origLines) : MatchingTrailer(origLines[i], bc.Msg)
    /\ \E j \in 1..Len(origLines) :
           ~isTrailerLine(origLines[j]) /\ LineMatches(origLines[j], bc.Msg)

\* p is the first pattern of the list, in list order, that the text contains
IsFirstMatching(p, patterns, text) ==
    \E i \in 1..Len(patterns) :
        /\ patterns[i] = p
        /\ ContainsFold(text, p)
        /\ \A j \in 1..(i - 1) : ~ContainsFold(text, patterns[j])

\* C7: when the message holds a matching trailer line and matching text that
\* is not a trailer, the check first rewrites the file without the matching
\* trailer lines, then fails reporting the first pattern in list order that
\* matches what is left; the rewritten file stays as rewritten.
C7_StripThenFail ==
    TrailerAndBodyMatch =>
        /\ pc = "resolved" => msgFile = msgOrig
        /\ pc = "pass2" => /\ msgFile = WithoutMatchingTrailers
                           /\ msgFile # msgOrig
                           /\ result.exit = 0
        /\ pc = "done" => /\ msgFile = WithoutMatchingTrailers
                          /\ msgFile # msgOrig
                          /\ result.exit = 1
                          /\ IsFirstMatching(result.pattern, bc.Msg, msgFile)

\* the trailer held the first pattern of the list; the body holds the second
C7_Witness ==
    /\ pc = "done"
    /\ TrailerAndBodyMatch
    /\ bc.Msg = <<patB, patA>>
    /\ result = [exit |-> 1, pattern |-> patA, removed |-> 1]
    /\ msgFile # msgOrig

\* Every line that contains a msg pattern is trailer-shaped
OnlyTrailersMatch ==
    /\ cmd = "msg"
    /\ \A i \in 1..Len(origLines) :
           LineMatches(origLines[i], bc.Msg) => isTrailerLine(origLines[i])

lastContent(lines) ==
    LET c == {i \in 1..Len(lines) : lines[i] # <<>>}
    IN  IF c = {} THEN 0 ELSE CHOOSE i \in c : \A j \in c : j <= i

blockStart(lines) ==
    LET b == {i \in 1..lastContent(lines) : lines[i] = <<>>}
    IN  IF b = {} THEN 1 ELSE 1 + CHOOSE i \in b : \A j \in b : j <= i

inTrailerBlock(lines, i) ==
    /\ blockStart(lines) > 1
    /\ blockStart(lines) <= i
    /\ i <= lastContent(lines)

\* C9, as claimed: the subject line and every body line outside the trailer
\* block stay in the message file, so a blocked pattern in one of them makes
\* the check fail.
C9_BodyProseKept ==
    (pc = "done" /\ cmd = "msg" /\ Len(bc.Msg) > 0) =>
        \A i \in 1..Len(origLines) :
            (~inTrailerBlock(origLines, i) /\ LineMatches(origLines[i], bc.Msg)) =>
                /\ origLines[i] \in Range(Split(msgFile, "\n"))
                /\ result.exit = 1

(***************************************************************************)
(* Properties of the staged diff check                                     *)
(***************************************************************************)
AddedTexts(d) == {d.lines[i].text : i \in {k \in 1..Len(d.lines) : d.lines[k].op = "+"}}

OccursInAdded(p) == \E t \in AddedTexts(staged) : ContainsFold(t, p)

OccursOutsideAdded(p) ==
    \/ ContainsFold(Join(gitDiffHeader(staged), "\n"), p)
    \/ \E i \in 1..Len(staged.lines) :
           staged.lines[i].op # "+" /\ ContainsFold(staged.lines[i].text, p)

C11_AddedContentReported ==
    (pc = "done" /\ cmd = "diff") =>
        ((\E p \in Range(bc.Diff) : OccursInAdded(p)) =>
            /\ result.exit = 1
            /\ result.pattern \in Range(bc.Diff)
            /\ OccursInAdded(result.pattern))

(***************************************************************************)
(* Properties of the resolved policy                                       *)
(***************************************************************************)
Lowered(list) == [i \in 1..Len(list) |-> ToLower(list[i])]

IsLowercase(list) == \A p \in Range(list) : p = ToLower(p)

\* C12 (step): normalisation keeps, for each list, the first occurrence of
\* each value in its place; diff, msg and push values are lowercased first,
\* branch values are taken as they are.
NormalizedStep ==
    (pc = "normalize" /\ pc' = "resolved") =>
        /\ IsFirstOccurrenceList(bc'.Diff, Lowered(bc.Diff))
        /\ IsFirstOccurrenceList(bc'.Msg, Lowered(bc.Msg))
        /\ IsFirstOccurrenceList(bc'.Push, Lowered(bc.Push))
        /\ IsFirstOccurrenceList(bc'.Branch, bc.Branch)

\* C12 (result): diff, msg and push hold lowercase patterns, branch holds
\* values exactly as a structured file, the environment or the defaults
\* supplied them, and no list holds a value twice.
NormalizedResult ==
    pc = "resolved" =>
        /\ IsLowercase(bc.Diff) /\ IsLowercase(bc.Msg)
        /\ IsLowercase(bc.Push) /\ IsLowercase(PushPatterns(bc))
        /\ NoDuplicates(bc.Diff) /\ NoDuplicates(bc.Msg)
        /\ NoDuplicates(bc.Push) /\ NoDuplicates(PushPatterns(bc))
        /\ NoDuplicates(bc.Branch)
        /\ Range(bc.Branch) \subseteq
               StructuredBranches \cup EnvBranchNames \cup Range(defaultProtectedBranches)

\* C12: every resolved policy has lowercase diff, msg and push patterns,
\* branch patterns identical to what their source supplied, no value twice
\* in a list, and first occurrences in their original relative order.
C12_Normalized == [][NormalizedStep]_vars /\ []NormalizedResult

\* two diff patterns differing only in case were accumulated and collapsed,
\* two branch patterns differing only in case both remain
C12_Witness ==
    /\ pc = "resolved"
    /\ patAUp \in Range(accum.Diff) /\ patA \in Range(accum.Diff)
    /\ patAUp \notin Range(bc.Diff) /\ patA \in Range(bc.Diff)
    /\ brMainUp \in Range(bc.Branch)
    /\ ToLower(brMainUp) \in Range(bc.Branch)

\* The branch patterns of the structured files of the chain, start directory
\* first, primary file before local file
RECURSIVE ChainBranches(_)
ChainBranches(l) ==
    IF l > MaxDepth THEN <<>>
    ELSE fs[l].toml.Branch \o fs[l].local.Branch \o ChainBranches(l + 1)

\* What the walk and the environment contribute to branch
WalkBranches ==
    IF ~flag.changed /\ kind = configTOML THEN ChainBranches(0) ELSE <<>>

SourceBranches == WalkBranches \o envProtectedBranches(env.branches)

HardcodedBranches == <<ToLower(brMainUp), <<"m", "a", "s", "t", "e", "r">>>>

\* C13: the branch set is the hardcoded defaults exactly when neither a
\* structured file of the walk nor the branch environment variable
\* contributed a pattern; otherwise it is the walk's branch patterns
\* followed by the environment entries, without the defaults.
C13_BranchDefaults ==
    pc = "resolved" =>
        /\ accum.Branch = IF SourceBranches = <<>> THEN HardcodedBranches
                          ELSE SourceBranches
        /\ EntriesOf(phaseBranch) = {} =>
               IsFirstOccurrenceList(bc.Branch,
                   IF SourceBranches = <<>> THEN HardcodedBranches ELSE SourceBranches)

\* a structured file names "dev", the environment adds "dev" and "main":
\* the branch set is dev, main, without master
C13_Witness ==
    /\ pc = "resolved"
    /\ WalkBranches = <<brDev>>
    /\ env.branches # <<>>
    /\ env.ignore = <<>>
    /\ bc.Branch = <<brDev, ToLower(brMainUp)>>

\* Every pattern of the structured file f is in the resolved policy
KeptFromFile(f) ==
    /\ Range(Lowered(f.Diff)) \subseteq Range(bc.Diff)
    /\ Range(Lowered(f.Msg)) \subseteq Range(bc.Msg)
    /\ f.PushSet => /\ Range(Lowered(f.Push)) \subseteq Range(bc.Push)
                    /\ Range(Lowered(f.Push)) \subseteq Range(PushPatterns(bc))
    /\ Range(f.Branch) \subseteq Range(bc.Branch)

\* C14: after a structured-mode walk every pattern of every primary
\* structured file of the chain is in the resolved diff, msg, push or
\* branch set it was written for (lowercased, except branch), whatever the
\* local file beside it and the structured files above it hold; the same
\* goes for the patterns of the local files.
C14_AdditiveMerge ==
    (pc = "resolved" /\ ~flag.changed /\ kind = configTOML /\ env.ignore = <<>>) =>
        \A l \in Levels :
            /\ fs[l].toml.exists => KeptFromFile(fs[l].toml)
            /\ fs[l].local.exists => KeptFromFile(fs[l].local)

\* the start directory's primary file sets push = [c]; its local file and
\* the parent's primary file, which sets push = [], take nothing away
C14_Witness ==
    /\ pc = "resolved"
    /\ kind = configTOML
    /\ fs[0].toml = TomlPushSet
    /\ fs[0].local = TomlLocal
    /\ fs[1].toml = TomlPushEmpty
    /\ patC \in Range(bc.Push)
    /\ brMainUp \in Range(bc.Branch)

\* The levels holding a config file, and the first of them
ConfigLevels ==
    {l \in Levels : fs[l].toml.exists \/ fs[l].local.exists \/ fs[l].bl.exists}

FirstConfigLevel == CHOOSE l \in ConfigLevels : \A k \in ConfigLevels : l <= k

WalkReturned == pc \in {"overlay", "ignore", "normalize", "resolved"} /\ ~flag.changed

\* C15: at the first level holding a config file the walk takes structured
\* mode when a primary or a local structured file is there, and the legacy
\* file of that directory then contributes nothing; it takes legacy mode
\* only when no structured file is there.
C15_ModeChoice ==
    (WalkReturned /\ ConfigLevels # {}) =>
        LET d == fs[FirstConfigLevel]
        IN  /\ (d.toml.exists \/ d.local.exists) =>
                   /\ kind = configTOML
                   /\ pc = "resolved" =>
                          (Range(loadBlocklist(d.bl).patterns)
                               \ (StructuredContent \cup EnvContent))
                              \cap ResolvedContent = {}
            /\ ~(d.toml.exists \/ d.local.exists) => kind = configBlocklist

\* only a local structured file and a legacy file in the start directory
C15_Witness ==
    /\ pc = "resolved"
    /\ fs[0] = [toml |-> NoToml, local |-> TomlLocal, bl |-> BlocklistD]
    /\ kind = configTOML
    /\ bc.Diff = <<patC, patA>>
    /\ patD \notin ResolvedContent

\* C16, as claimed: with an override file given (and nothing from the
\* environment), the resolved diff, msg and push lists are each the
\* override file's patterns, lowercased and without repetitions, whatever
\* the directory chain holds, and push is explicitly set.
C16_OverrideOnly ==
    (pc = "resolved" /\ flag.changed /\ env.blocklist = <<>> /\ env.ignore = <<>>) =>
        LET given == loadBlocklist(flag.file).patterns
        IN  /\ IsFirstOccurrenceList(bc.Diff, Lowered(given))
            /\ IsFirstOccurrenceList(bc.Msg, Lowered(given))
            /\ IsFirstOccurrenceList(bc.Push, Lowered(given))
            /\ ~bc.PushNil

(***************************************************************************)
(* Properties of isTrailerLine                                             *)
(***************************************************************************)
NoLeadingWhitespace(line) == line = <<>> \/ line[1] \notin {" ", "\t"}

\* the 1-based positions where ": " starts in line
ColonSpaceAt(line) ==
    {i \in 1..(Len(line) - 1) : line[i] = ":" /\ line[i + 1] = " "}

\* no space before the first ": " of line
NoSpaceInKey(line) ==
    \E i \in ColonSpaceAt(line) :
        /\ \A j \in ColonSpaceAt(line) : i <= j
        /\ \A k \in 1..(i - 1) : line[k] # " "

\* something stands before the first ": " of line
KeyNotEmpty(line) == 1 \notin ColonSpaceAt(line)

\* C17, as claimed: isTrailerLine is true exactly for the lines that have no
\* leading whitespace, contain ": ", and have no space before the first ": ".
C17_TrailerShape ==
    (pc = "returned" /\ cmd = "trailer") =>
        (ret.found <=> /\ NoLeadingWhitespace(args.text)
                       /\ ColonSpaceAt(args.text) # {}
                       /\ NoSpaceInKey(args.text))

\* C17, amended: isTrailerLine is true exactly for the lines that have no
\* leading whitespace, contain ": " with at least one character before its
\* first occurrence, and have no space before that occurrence.
C17_TrailerShapeWithKey ==
    (pc = "returned" /\ cmd = "trailer") =>
        (ret.found <=> /\ NoLeadingWhitespace(args.text)
                       /\ ColonSpaceAt(args.text) # {}
                       /\ KeyNotEmpty(args.text)
                       /\ NoSpaceInKey(args.text))

C17_Witness ==
    /\ pc = "returned"
    /\ cmd = "trailer"
    /\ args.text = <<"K", ":", " ", "K">>
    /\ ret.found

(***************************************************************************)
(* Properties of deduplicatePatterns                                       *)
(***************************************************************************)

\* C18: deduplicate returns each distinct element of its input once, in the
\* order of first occurrence; an empty input gives an empty result; applied
\* to its own result it returns that result.
C18_DedupIdempotent ==
    cmd = "dedup" =>
        /\ pc \in {"returned", "again"} =>
               /\ IsFirstOccurrenceList(ret.first, args.patterns)
               /\ args.patterns = <<>> => ret.first = <<>>
        /\ pc = "again" => ret.out = ret.first

C18_Witness ==
    /\ cmd = "dedup"
    /\ pc = "again"
    /\ args.patterns = <<patB, patA, patB, patAUp>>
    /\ ret.out = <<patB, patA, patAUp>>

(***************************************************************************)
(* The phase checks without any policy                                     *)
(***************************************************************************)

\* no config file at any level, no --blocklist flag, an empty environment
NoConfigAnywhere == ConfigLevels = {} /\ flag = NoFlag /\ env = NoEnv

\* the check reported nothing, failed nothing and rewrote nothing
SilentSoFar ==
    /\ pc # "failed"
    /\ err = ""
    /\ result = NoResult
    /\ reports = <<>>
    /\ msgFile = msgOrig

\* C19: with no config file at any level of the walk, no override path and no
\* environment list, every phase check (diff, message, push, audit, rebase
\* guard) passes silently, for any inspected text and any branch name
C19_SilentPass == NoConfigAnywhere => SilentSoFar

\* C19, amended: with no config file, no override path and no environment list,
\* the diff, message, push and audit checks pass silently for any inspected
\* text; the rebase guard still protects the hardcoded default branches: it
\* rejects the rebase exactly when SNAG_ALLOW_REBASE is not "1" and the branch
\* is main or master, and passes silently otherwise
C19_SilentPassButDefaultBranches ==
    NoConfigAnywhere =>
        /\ cmd # "rebase" => SilentSoFar
        /\ cmd = "rebase" =>
              /\ pc # "failed"
              /\ reports = <<>>
              /\ msgFile = msgOrig
              /\ pc = "done" =>
                    IF ~rebase.allow /\ rebaseBranch(rebase) \in Range(defaultProtectedBranches)
                    THEN result.exit = 1 /\ err = "rebase blocked"
                    ELSE result = NoResult /\ err = ""
              /\ pc # "done" => result = NoResult /\ err = ""

\* no config anywhere, and the rebase guard let a branch through that differs
\* from a default one by case only
C19_Witness ==
    /\ NoConfigAnywhere
    /\ cmd = "rebase"
    /\ pc = "done"
    /\ ~rebase.allow
    /\ rebaseBranch(rebase) = brMainUp
    /\ result = NoResult
    /\ err = ""

(***************************************************************************)
(* The push check                                                          *)
(***************************************************************************)

\* pattern p occurs in the message of commit c, whatever the case of the text
MessageMatches(c, p) == Contains(ToLower(c.msg), p)

\* pattern p occurs in a line that commit c adds
AddedLineMatches(c, p) ==
    \E k \in 1..Len(c.change.lines) :
        /\ c.change.lines[k].op = "+"
        /\ Contains(ToLower(c.change.lines[k].text), p)

CommitMatches(c, patterns) ==
    \E p \in Range(patterns) : MessageMatches(c, p) \/ AddedLineMatches(c, p)

\* the first pattern of the list for which hit holds
FirstPattern(patterns, hit(_)) ==
    patterns[CHOOSE k \in 1..Len(patterns) :
                 hit(patterns[k]) /\ \A j \in 1..(k - 1) : ~hit(patterns[j])]

\* what a fail-fast check reports for commit c: its message match, or its
\* diff match when the message is clean
ExpectedViolation(c, patterns) ==
    LET inMsg(p)  == MessageMatches(c, p)
        inDiff(p) == AddedLineMatches(c, p)
    IN  IF \E p \in Range(patterns) : inMsg(p)
        THEN [kind |-> "msg", pattern |-> FirstPattern(patterns, inMsg)]
        ELSE [kind |-> "diff", pattern |-> FirstPattern(patterns, inDiff)]

MatchingCommits(patterns) ==
    {i \in 1..Len(commits) : CommitMatches(commits[i], patterns)}

\* C20: the push check is fail-fast in query order: the reported violation is
\* the message match of the earliest commit that has any match, or its diff
\* match when its message is clean, no later commit is inspected, and the
\* check passes only if no message and no added diff line of any commit in the
\* range matches the effective push set
C20_FailFastInOrder ==
    (cmd = "push" /\ pc = "done") =>
        LET patterns == PushPatterns(bc)
            M == MatchingCommits(patterns)
        IN  IF M = {}
            THEN result.exit = 0 /\ reports = <<>>
            ELSE LET first == CHOOSE i \in M : \A j \in M : i <= j
                 IN  /\ result.exit = 1
                     /\ reports = <<[sha |-> first,
                                     matches |-> <<ExpectedViolation(commits[first], patterns)>>]>>
                     /\ result.pattern = ExpectedViolation(commits[first], patterns).pattern
                     /\ shaIdx = first

(***************************************************************************)
(* The audit                                                               *)
(***************************************************************************)

\* the violations of commit c: its message against the msg patterns, then
\* its added lines against the diff patterns
ExpectedViolations(c, config) ==
    LET inMsg(p)  == MessageMatches(c, p)
        inDiff(p) == AddedLineMatches(c, p)
    IN  (IF \E p \in Range(config.Msg) : inMsg(p)
         THEN <<[kind |-> "msg", pattern |-> FirstPattern(config.Msg, inMsg)]>> ELSE <<>>)
        \o (IF \E p \in Range(config.Diff) : inDiff(p)
            THEN <<[kind |-> "diff", pattern |-> FirstPattern(config.Diff, inDiff)]>> ELSE <<>>)

\* one report for each commit of h with a violation, in the order of h
ExpectedReports(h, config) ==
    LET F[i \in 0..Len(h)] ==
            IF i = 0 THEN <<>>
            ELSE IF ExpectedViolations(h[i], config) = <<>> THEN F[i - 1]
            ELSE Append(F[i - 1], [sha |-> i, matches |-> ExpectedViolations(h[i], config)])
    IN  F[Len(h)]

\* C21: the audit aggregates: every commit of the range is scanned even after
\* a violation, msg patterns are applied to messages only and diff patterns to
\* diffs only, every violation of every commit is collected, and the audit
\* fails if and only if at least one violation was collected
C21_AuditAggregates ==
    (cmd = "audit" /\ pc = "done") =>
        /\ reports = ExpectedReports(git.history, bc)
        /\ result.exit = 1 <=> Len(reports) > 0
        /\ (Len(bc.Diff) > 0 \/ Len(bc.Msg) > 0) =>
               commits = git.history /\ shaIdx = Len(git.history)

(***************************************************************************)
(* The rebase guard                                                        *)
(***************************************************************************)

\* name matches pattern as a glob: name splits into one piece per pattern
\* character, a literal's piece being that character, the piece of "?" one
\* character other than "/", the piece of "*" any run without "/"
GlobMatches(pattern, name) ==
    \E cut \in [0..Len(pattern) -> 0..Len(name)] :
        /\ cut[0] = 0
        /\ cut[Len(pattern)] = Len(name)
        /\ \A i \in 1..Len(pattern) :
              /\ cut[i - 1] <= cut[i]
              /\ LET piece == SubSeq(name, cut[i - 1] + 1, cut[i])
                 IN  IF pattern[i] = "*" THEN \A k \in 1..Len(piece) : piece[k] # "/"
                     ELSE IF pattern[i] = "?" THEN Len(piece) = 1 /\ piece[1] # "/"
                     ELSE piece = <<pattern[i]>>

\* C22: the rebase guard blocks if and only if the override signal is absent
\* and the checked branch (the argument when given, else the current branch)
\* equals a resolved branch pattern exactly or matches one as a glob; with the
\* override signal it passes without resolving the policy or asking git
C22_RebaseGuard ==
    /\ (cmd = "rebase" /\ pc = "done") =>
          (result.exit = 1 <=>
              /\ ~rebase.allow
              /\ \E p \in Range(bc.Branch) :
                    \/ rebaseBranch(rebase) = p
                    \/ GlobMatches(p, rebaseBranch(rebase)))
    /\ (cmd = "rebase" /\ rebase.allow) =>
          /\ pc \in {"start", "done"}
          /\ bc = EmptyConfig
          /\ result = NoResult
          /\ err = ""

\* a branch that only a glob protects was blocked
C22_Witness ==
    /\ cmd = "rebase"
    /\ pc = "done"
    /\ ~rebase.allow
    /\ rebaseBranch(rebase) = <<"r", "e", "l", "x">>
    /\ rebaseBranch(rebase) \notin Range(bc.Branch)
    /\ brRelGlob \in Range(bc.Branch)
    /\ result.exit = 1

(***************************************************************************)
(* The minimum version                                                     *)
(***************************************************************************)

\* major, minor and patch of the versions used, read by hand
VersionNumber(v) ==
    CASE v = ver0_9_1   -> <<0, 9, 1>>
      [] v = ver0_10_0  -> <<0, 10, 0>>
      [] v = ver1_0     -> <<1, 0, 0>>
      [] v = minV0_10_0 -> <<0, 10, 0>>
      [] v = min0_9_2   -> <<0, 9, 2>>
      [] v = min1       -> <<1, 0, 0>>

Older(x, y) ==
    \/ x[1] < y[1]
    \/ x[1] = y[1] /\ x[2] < y[2]
    \/ x[1] = y[1] /\ x[2] = y[2] /\ x[3] < y[3]

DevelopmentBuild == Version \in {devBuild, verDevRev}

\* the structured files the walk reads: those from the first level with a
\* config file upwards, when that level holds a structured file
ConsultedFiles ==
    IF flag.changed \/ ConfigLevels = {} THEN {}
    ELSE IF ~(fs[FirstConfigLevel].toml.exists \/ fs[FirstConfigLevel].local.exists) THEN {}
    ELSE {f \in {fs[l].toml : l \in FirstConfigLevel..MaxDepth}
                    \cup {fs[l].local : l \in FirstConfigLevel..MaxDepth} : f.exists}

RequiresNewer(f) ==
    /\ f.MinVersion # <<>>
    /\ ~DevelopmentBuild
    /\ Older(VersionNumber(Version), VersionNumber(f.MinVersion))

\* C23: when a structured file consulted during the walk declares a minimum
\* version and the running version is older (major, minor, patch compared as
\* numbers, a leading "v" ignored), resolution fails with a version error and
\* returns no policy; when the running version is equal or newer, or the
\* build is a development build, the declaration causes no failure
C23_MinVersion ==
    IF \E f \in ConsultedFiles : RequiresNewer(f)
    THEN /\ pc \in {"start", "walk", "failed"}
         /\ pc = "failed" => err = "version"
    ELSE pc # "failed" /\ err = ""

\* a file above one that already contributed patterns requires 0.10.0 and
\* the running version 0.9.1 is refused
C23_Witness ==
    /\ pc = "failed"
    /\ err = "version"
    /\ Version = ver0_9_1
    /\ fs[0].toml = TomlDiffMsg
    /\ fs[MaxDepth].toml.MinVersion = minV0_10_0

(***************************************************************************)
(* Failures of git                                                         *)
(***************************************************************************)

\* the git commands a check that ran to its end has issued
IssuedCalls ==
    CASE cmd = "diff" -> IF Len(bc.Diff) > 0 THEN {"diff"} ELSE {}
      [] cmd = "push" ->
            IF Len(PushPatterns(bc)) = 0 THEN {}
            ELSE {"rev-list"}
                 \cup (IF Len(commits) > 0 THEN {"log"} ELSE {})
                 \cup (IF /\ Len(commits) > 0
                          /\ \A p \in Range(PushPatterns(bc)) : ~MessageMatches(commits[1], p)
                       THEN {"diff-tree"} ELSE {})
      [] cmd = "audit" ->
            IF (Len(bc.Diff) = 0 /\ Len(bc.Msg) = 0) \/ git.history = <<>> THEN {}
            ELSE {"rev-list"}
                 \cup (IF Len(commits) > 0 /\ Len(bc.Msg) > 0 THEN {"log"} ELSE {})
                 \cup (IF Len(commits) > 0 /\ Len(bc.Diff) > 0 THEN {"diff-tree"} ELSE {})
      [] OTHER -> {}

\* C24: a failure of a git call is fatal for the check that issued it: the
\* diff, push and audit checks never end with a pass or a violation count when
\* a git query they issued (a diff, a commit message, a revision list) failed
C24_GitFailureFatal ==
    (cmd \in {"diff", "push", "audit"} /\ pc = "done") => IssuedCalls \cap git.fail = {}

(***************************************************************************)
(* Configuration errors                                                    *)
(***************************************************************************)

\* the legacy files the walk reads: those from the first level with a config
\* file upwards, when that level holds no structured file
ConsultedLegacyFiles ==
    IF flag.changed \/ ConfigLevels = {} THEN {}
    ELSE IF fs[FirstConfigLevel].toml.exists \/ fs[FirstConfigLevel].local.exists THEN {}
    ELSE {f \in {fs[l].bl : l \in FirstConfigLevel..MaxDepth} : f.exists}

BrokenConfig ==
    \/ \E f \in ConsultedFiles : f.unreadable \/ f.bad \/ RequiresNewer(f)
    \/ \E f \in ConsultedLegacyFiles : f.unreadable

PushOf(f) == IF f.exists /\ f.PushSet THEN f.Push ELSE <<>>

SetsPush(f) == f.exists /\ f.PushSet

IsPrefix(s, t) == Len(s) <= Len(t) /\ SubSeq(t, 1, Len(s)) = s

\* C26: push accumulation across levels is cumulative and monotone: once a
\* structured file sets push, even to an empty array, push stays set for the
\* rest of the walk; a level that omits push leaves the accumulated push list
\* unchanged; a level that sets push appends its values after the accumulated
\* ones; no level resets push to unset or replaces earlier values
C26_PushCumulative ==
    [][(pc = "walk" /\ pc' \in {"walk", "overlay"}) =>
        LET d == fs[current]
            structured == kind' = configTOML /\ (d.toml.exists \/ d.local.exists)
        IN  /\ ~bc.PushNil => ~bc'.PushNil
            /\ IsPrefix(bc.Push, bc'.Push)
            /\ structured =>
                 /\ bc'.Push = bc.Push \o PushOf(d.toml) \o PushOf(d.local)
                 /\ bc'.PushNil = (bc.PushNil /\ ~SetsPush(d.toml) /\ ~SetsPush(d.local))]_vars

\* the start directory set push to an empty array, the outermost directory
\* holds a structured file that omits push, and the walk ended with push
\* still set
C26_Witness ==
    /\ pc = "overlay"
    /\ fs[0].toml = TomlPushEmpty
    /\ fs[0].local = NoToml
    /\ fs[MaxDepth].toml = TomlDiffMsg
    /\ fs[MaxDepth].local = NoToml
    /\ ~bc.PushNil
    /\ walked = bc

(***************************************************************************)
(* The range of the audit                                                  *)
(***************************************************************************)

\* the commits of HEAD~k..HEAD, as positions in the listing from HEAD: those
\* with at most k first-parent commits at or before them
Window(k) ==
    {i \in 1..Len(git.history) :
        Cardinality({j \in 1..i : j \notin git.side}) <= k}

HasAncestor(k) == Cardinality({j \in 1..Len(git.history) : j \notin git.side}) > k

FirstOfHistory(n) == SubSeq(git.history, 1, n)

AuditStarted == cmd = "audit" /\ pc \in {"audit", "report", "done"}

\* C27: with a range argument exactly the commits of the range are scanned,
\* whatever the limit; with no range and limit 0 the whole history is scanned;
\* with no range and limit N > 0 at most N commits are scanned in every shape
\* of repository, the whole history cut at N when HEAD~N does not exist; an
\* empty repository gives no commits and a pass
C27_AuditRange ==
    LET n == Len(git.history)
        size == IF HasAncestor(audit.limit) THEN Cardinality(Window(audit.limit)) ELSE n
    IN  /\ (cmd = "audit" /\ pc = "failed") =>
              n > 0 /\ audit.given /\ ~HasAncestor(audit.back)
        /\ AuditStarted =>
              /\ n = 0 => commits = <<>> /\ pc = "done" /\ result.exit = 0 /\ err = ""
              /\ (n > 0 /\ audit.given) =>
                    commits = FirstOfHistory(Cardinality(Window(audit.back)))
              /\ (n > 0 /\ ~audit.given /\ audit.limit = 0) => commits = git.history
              /\ (n > 0 /\ ~audit.given /\ audit.limit > 0) =>
                    /\ Len(commits) <= audit.limit
                    /\ commits = FirstOfHistory(IF size > audit.limit THEN audit.limit ELSE size)
              /\ pc \in {"report", "done"} => shaIdx = Len(commits)

\* the limit is 1 and HEAD is a merge: HEAD~1..HEAD holds the merge and a
\* commit of the side branch, and one commit was scanned
C27_Witness ==
    /\ AuditStarted
    /\ pc = "done"
    /\ ~audit.given
    /\ audit.limit = 1
    /\ 2 \in git.side
    /\ HasAncestor(1)
    /\ Len(commits) = 1
    /\ shaIdx = 1

(***************************************************************************)
(* What the message check writes                                           *)
(***************************************************************************)
RemovedLines == {i \in 1..Len(origLines) : MatchingTrailer(origLines[i], bc.Msg)}

\* C28: the message file is written if and only if pass 1 removed a line;
\* the written content is the original lines without the removed ones, in
\* their order and otherwise as they were; when no line is removed, an empty
\* msg list included, the file is as it was
C28_MsgFrame ==
    cmd = "msg" =>
        /\ pc = "resolved" => msgFile = msgOrig
        /\ pc \in {"pass2", "done"} =>
              /\ result.removed = Cardinality(RemovedLines)
              /\ (msgFile # msgOrig) <=> (result.removed > 0)
              /\ msgFile = IF RemovedLines = {} THEN msgOrig ELSE WithoutMatchingTrailers
              /\ result.removed > 0 =>
                    /\ Len(cleaned) = Len(origLines) - result.removed
                    /\ msgFile = Join(cleaned, "\n")

\* one of three lines was removed and a blank line is among the two kept
C28_Witness ==
    /\ cmd = "msg"
    /\ pc = "done"
    /\ Len(origLines) = 3
    /\ result.removed = 1
    /\ Len(cleaned) = 2
    /\ cleaned[1] = <<>>
    /\ msgFile = Join(cleaned, "\n")
    /\ msgFile # msgOrig

(***************************************************************************)
(* The order of the walk                                                   *)
(***************************************************************************)

\* the four lists of a policy
ListOf(c, x) ==
    CASE x = "diff" -> c.Diff
      [] x = "msg" -> c.Msg
      [] x = "push" -> c.Push
      [] x = "branch" -> c.Branch

\* what a structured file gives to a list, as the resolved list spells it
FileGives(f, x) ==
    IF ~f.exists THEN <<>>
    ELSE CASE x = "diff" -> lowercaseAll(f.Diff)
           [] x = "msg" -> lowercaseAll(f.Msg)
           [] x = "push" -> IF f.PushSet THEN lowercaseAll(f.Push) ELSE <<>>
           [] x = "branch" -> f.Branch

\* what the files of level l give to a list in the mode of the walk
PrimaryGives(l, x) ==
    IF kind = configTOML THEN FileGives(fs[l].toml, x)
    ELSE IF kind = configBlocklist /\ x # "branch"
    THEN loadBlocklist(fs[l].bl).patterns
    ELSE <<>>

SecondaryGives(l, x) ==
    IF kind = configTOML THEN FileGives(fs[l].local, x) ELSE <<>>

LevelGives(l, x) == Range(PrimaryGives(l, x)) \cup Range(SecondaryGives(l, x))

Contributed(x) == UNION {LevelGives(l, x) : l \in 0..MaxDepth}

FirstLevel(x, p) ==
    CHOOSE l \in 0..MaxDepth :
        /\ p \in LevelGives(l, x)
        /\ \A k \in 0..(l - 1) : p \notin LevelGives(k, x)

Position(list, p) == CHOOSE i \in 1..Len(list) : list[i] = p

\* nearer before farther, and primary before secondary at one level
ResolvedInWalkOrder ==
    \A x \in {"diff", "msg", "push", "branch"} :
        \A p, q \in Contributed(x) \cap Range(ListOf(bc, x)) :
            LET lp == FirstLevel(x, p)
                lq == FirstLevel(x, q)
            IN  (\/ lp < lq
                 \/ /\ lp = lq
                    /\ p \in Range(PrimaryGives(lp, x))
                    /\ q \notin Range(PrimaryGives(lp, x)))
                => Position(ListOf(bc, x), p) < Position(ListOf(bc, x), q)

\* one step of the walk: from a directory to its parent, or the end at the root
WalkGoesUp ==
    \/ /\ current < MaxDepth
       /\ pc' = "walk"
       /\ current' = current + 1
    \/ /\ current = MaxDepth
       /\ pc' = "overlay"
       /\ current' = current
    \/ /\ pc' = "failed"
       /\ current' = current

\* C29: the walk visits the start directory and then each ancestor once, from
\* leaf to root, and ends at the root; so in each resolved list a pattern
\* first given by a nearer directory precedes one given only by farther
\* directories, and at one level the patterns of the primary file precede
\* those of the secondary file
C29_WalkOrder ==
    /\ [](pc = "start" => current = 0)
    /\ [][pc = "walk" => WalkGoesUp]_vars
    /\ [][pc # "walk" => current' = current]_vars
    /\ [](pc = "resolved" => ResolvedInWalkOrder)
    /\ <>(pc \in {"resolved", "failed"})

\* the start directory's primary file gives "a", its secondary file "c" and
\* "a", the outermost directory "A" and "b": the resolved diff list starts
\* with "a", "c" and ends with "b"
C29_Witness ==
    /\ pc = "resolved"
    /\ fs[0].toml = TomlDiffMsg
    /\ fs[0].local = TomlLocal
    /\ fs[MaxDepth].toml = TomlPushEmpty
    /\ Len(bc.Diff) >= 3
    /\ bc.Diff[1] = patA
    /\ bc.Diff[2] = patC
    /\ bc.Diff[Len(bc.Diff)] = patB

(***************************************************************************)
(* The checkout check                                                      *)
(***************************************************************************)

\* no config file, override or environment list gave a pattern
NothingContributed ==
    /\ IF flag.changed
       THEN loadBlocklist(flag.file).patterns = <<>>
       ELSE ~HasAnyPatterns(walked)
    /\ loadEnvBlocklist(env.blocklist) = <<>>
    /\ envProtectedBranches(env.branches) = <<>>

\* C30, as claimed: the checkout check skips silently when nothing is to be
\* protected: when no config file, override or environment list gave a
\* pattern it returns success, hooks installed or not; it fails with "hooks
\* not installed" only when some source gave a pattern and the hooks are
\* missing
C30_CheckoutSkips ==
    (cmd = "checkout" /\ pc = "done") =>
        IF NothingContributed
        THEN err = "" /\ result.exit = 0
        ELSE (err = "snag hooks not installed") <=> ~hooksInstalled

====
